---- MODULE Spec2Model ----
(***************************************************************************)
(* State-machine model of the open-apps-sdk MCP client (lib/mcp-client.ts) *)
(* tool/resource registry, of the server side of the WebSocket bridge      *)
(* (server/websocket.ts, server/init.ts) and of the client side of the     *)
(* bridge (lib/component-context.tsx).                                     *)
(*                                                                         *)
(* The server is a single-threaded event loop: every action below is the   *)
(* code that runs between two suspension points (await) of one task.       *)
(***************************************************************************)
EXTENDS Integers, Sequences, FiniteSets, TLC

(***************************************************************************)
(* Bounds of the model.                                                    *)
(***************************************************************************)
\* Client objects (new Client(...)) created over a run.
MaxClients == 2
\* callTool requests in flight on provider connections at the same time.
MaxPending == 1
\* WebSocket channels that connect to the server over a run.
MaxChannels == 2
\* Envelopes the server receives over a run.
MaxMsgs == 2
\* tool_call handlers suspended on the router at the same time.
MaxInFlight == 2
\* WebSocket objects the page creates over a run.
MaxSockets == 2
\* POST /api/tools/:name requests over a run.
MaxHttp == 3
\* getResource calls in flight at the same time.
MaxReads == 1
\* callTool / requestDisplayMode invocations of the page over a run.
MaxCalls == 2

(***************************************************************************)
(* Configured providers and what they advertise.                           *)
(***************************************************************************)
NoClient == 0
ClientIds == 1..MaxClients

Names == {"A", "B", "S"}
NoName == "none"

\* MCPServerConfig: name and transport ("S" declares the sse transport).
ConfigOf(n) == [name |-> n, transport |-> IF n = "S" THEN "sse" ELSE "stdio"]
Configs == {ConfigOf(n) : n \in Names}

\* _meta objects: absent (undefined), or an object giving some of the keys.
MetaKeys == {"componentId", "accessible"}
MetaVals == {"a", "b"}
Absent == "absent"
Undef == [present |-> FALSE, kv |-> [k \in MetaKeys |-> Absent]]
Obj(kv) == [present |-> TRUE, kv |-> kv]
Metas == {Undef} \cup {Obj(kv) : kv \in [MetaKeys -> MetaVals \cup {Absent}]}

ToolNames == {"t1", "t2"}
Uris == {"u1", "u2"}

\* The tools/list answer of each provider: both advertise t1, B also t2.
ToolCatalog(n) ==
  CASE n = "A" -> {[name |-> "t1", description |-> "A.t1",
                    meta |-> Obj([k \in MetaKeys |-> IF k = "componentId" THEN "a" ELSE Absent])]}
    [] n = "B" -> {[name |-> "t1", description |-> "B.t1",
                    meta |-> Obj([k \in MetaKeys |-> IF k = "componentId" THEN "b" ELSE "a"])],
                   [name |-> "t2", description |-> "B.t2", meta |-> Undef]}
    [] OTHER -> {}

\* The resources/list answer of each provider: both advertise u1, A also u2.
ResourceCatalog(n) ==
  CASE n = "A" -> {[uri |-> "u1", name |-> "A.u1"], [uri |-> "u2", name |-> "A.u2"]}
    [] n = "B" -> {[uri |-> "u1", name |-> "B.u1"]}
    [] OTHER -> {}

\* Bridge: channels, correlation ids chosen by the clients, payload values.
Channels == 1..MaxChannels
Ids == {"x", "y"}
NoId == "none"
ComponentStates == {"s1", "s2"}
Modes == {"fullscreen", "pip"}
Prompts == {"hello"}

\* Page: WebSocket objects and callTool/requestDisplayMode invocations.
NoSocket == 0
Sockets == 1..MaxSockets
CallIds == 1..MaxCalls
CallKinds == {"tool", "display"}
\* setTimeout delays of callTool, requestDisplayMode and onclose, in ms.
ToolTimeout == 30000
DisplayTimeout == 5000
ReconnectDelay == 3000
NoCall == [state |-> "none", kind |-> "none", id |-> <<"none", 0>>, sock |-> NoSocket,
           outcome |-> "none", timer |-> "none", due |-> 0]

\* MCPServerConfig values handed to validateMCPConfig: name and command may be
\* empty, args / env / url may be present or not.
Transports == {"stdio", "sse", "http"}
ConfigInputs ==
  [name : {"", "A"}, command : {"", "cmd"}, transport : Transports,
   args : BOOLEAN, env : BOOLEAN, url : BOOLEAN]
NoConfig == [name |-> "", command |-> "", transport |-> "stdio",
             args |-> FALSE, env |-> FALSE, url |-> FALSE]

\* The JSON fields of a message, and values given for them. A value is its
\* JavaScript type and its JSON text (the quotes of a string are written ').
JsonFields == {"component_props", "tool_args", "tool_result"}
JsonValue(kind, text) == [kind |-> kind, text |-> text]
JsonValues ==
  {JsonValue("object", "{}"), JsonValue("object", "{k:1}"),
   JsonValue("array", "[]"), JsonValue("array", "[1]"),
   JsonValue("number", "0"), JsonValue("number", "7"),
   JsonValue("boolean", "false"), JsonValue("boolean", "true"),
   JsonValue("string", "''"), JsonValue("string", "'s'"),
   JsonValue("null", "null")}
\* A field that is not given: undefined.
Missing == JsonValue("undefined", "undefined")
\* A text field / column that holds no text: undefined in the returned
\* object, NULL in the row.
NoText == "none"

\* HTTP status of Response.json(body) and of Response.json(body, {status: 500}).
HttpOk == 200
HttpError == 500

\* Names a caller passes to callTool: the advertised ones and one nobody has.
CallNames == ToolNames \cup {"zz"}
\* _meta a provider puts on a call result.
ResultMetas == {Undef,
                Obj([k \in MetaKeys |-> IF k = "componentId" THEN "b" ELSE Absent])}

VARIABLES
  connections,   \* MCPClient.connections: name -> client (NoClient: no key)
  tools,         \* MCPClient.tools: tool name -> {serverName, tool}
  resources,     \* MCPClient.resources: uri -> {serverName, resource}
  clientState,   \* per Client object: none/connecting/live/closing/closed
  clientName,    \* per Client object: the config name it was created for
  ctask,         \* per Client object: where its connect() task is suspended
                 \* (none: no connect() is running on it)
  discs,         \* Client objects a disconnect() task is awaiting close() on
  pending,       \* callTool tasks suspended on the provider round trip
  last,          \* the API call the latest step settled (NoOutcome: it settled none)
  regOrder,      \* history: per tool, registrants in order, none disconnected since
  goneBy,        \* history: per tool, whose disconnect removed its entry last
  wsClients,     \* init.ts wsClients: the broadcast set
  chanState,     \* per channel: connecting/open/closed
  sent,          \* per channel: the envelopes passed to its ws.send, in order
  htasks,        \* tool_call handlers suspended in await mcpClient.callTool
  received,      \* history: the envelopes the server received, in order
  skipWebSocket, \* ComponentProvider prop: static component, no socket
  ws,            \* component-context.tsx module variable ws (NoSocket: null)
  sockState,     \* per WebSocket object: none/connecting/open/closed
  listeners,     \* per WebSocket object: the 'message' handlers added by calls
  calls,         \* per callTool/requestDisplayMode invocation: its promise
  wire,          \* requests sent to the server and not answered yet
  nullTimers,    \* onclose's setTimeout(..., 3000) callbacks not yet run
  now,           \* Date.now() relative to page load, in ms
  mTool,         \* a tool descriptor's static _meta
  mResult,       \* a call result's _meta
  mMerged,       \* the _meta of the returned ToolCallResult
  mDone,         \* the merge has run
  broken,        \* channels whose send throws
  raised,        \* history: received envelopes whose handler ended by throwing
  httpTasks,     \* POST /api/tools/:name handlers suspended in await callTool
  httpLog,       \* history: the HTTP responses returned, in order
  reads,         \* getResource tasks suspended on the provider round trip
  vConfig,       \* the MCPServerConfig handed to validateMCPConfig
  vErrors,       \* the list validateMCPConfig returned
  vDone,         \* validateMCPConfig has run
  bootList,      \* initializeMCPServers: the servers loadMCPConfig returned
  bootPos,       \* initializeMCPServers: iterations of the loop that are over
  bootBusy,      \* initializeMCPServers is suspended in await mcpClient.connect
  bootListed,    \* history: the awaited connect has registered its tools
  bootLog,       \* history: how the connect of each iteration ended, in order
  bootDone,      \* initializeMCPServers has returned
  msgParams,     \* the JSON fields of the CreateMessageParams given to createMessage
  msgStored,     \* the JSON fields of the StoredMessage createMessage returned
  msgRow,        \* the JSON columns of the row createMessage inserted
  msgParsed,     \* the JSON fields of what parseStoredMessage returned
  msgStage       \* new / stored / parsed

regVars == <<connections, tools, resources, clientState, clientName, ctask,
             discs, pending, last, regOrder, goneBy>>

bridgeVars == <<wsClients, chanState, sent, htasks, received>>

clientVars == <<skipWebSocket, ws, sockState, listeners, calls, wire, nullTimers, now>>

metaVars == <<mTool, mResult, mMerged, mDone>>

faultVars == <<broken, raised>>

httpVars == <<httpTasks, httpLog>>

configVars == <<vConfig, vErrors, vDone>>

bootVars == <<bootList, bootPos, bootBusy, bootListed, bootLog, bootDone>>

storeVars == <<msgParams, msgStored, msgRow, msgParsed, msgStage>>

restVars == <<httpVars, reads, configVars, bootVars, storeVars>>

vars == <<regVars, bridgeVars, clientVars, metaVars, faultVars, restVars>>

\* Number of envelopes the server has received.
msgCount == Len(received)

(***************************************************************************)
(* Helpers.                                                                *)
(***************************************************************************)
Range(f) == {f[x] : x \in DOMAIN f}
SeqRange(s) == {s[i] : i \in 1..Len(s)}
Restrict(f, S) == [x \in S |-> f[x]]
Last(s) == s[Len(s)]

\* Map.set(key, value)
MapSet(m, k, v) == [x \in DOMAIN m \cup {k} |-> IF x = k THEN v ELSE m[x]]

\* What an API call of MCPClient settled with (a resolved or rejected promise).
\* warn: the console.warn of an idempotent guard; gone: goneBy of the tool
\* when callTool was entered.
Outcome(op, n, status, error, warn, m, g) ==
  [op |-> op, name |-> n, status |-> status, error |-> error, warn |-> warn,
   meta |-> m, gone |-> g]
NoOutcome == Outcome("none", NoName, "none", "none", "none", Undef, NoName)

(***************************************************************************)
(* MCPClient: pure parts.                                                  *)
(***************************************************************************)
\* The messages of validateMCPConfig.
NameRequired == "Server name is required"
CommandRequired == "Command is required"
TransportInvalid == "Transport must be either stdio or sse"

\* Mutant of ValidateMCPConfig: it returns at the first violated rule.
ValidateMCPConfigFirstOnly(config) ==
  IF config.name = "" THEN <<NameRequired>>
  ELSE IF config.command = "" THEN <<CommandRequired>>
  ELSE IF config.transport \notin {"stdio", "sse"} THEN <<TransportInvalid>>
  ELSE << >>

\* validateMCPConfig(config): the errors array, in the order of the pushes.
ValidateMCPConfig(config) ==
  (IF config.name = "" THEN <<NameRequired>> ELSE << >>)
    \o (IF config.command = "" THEN <<CommandRequired>> ELSE << >>)
    \o (IF config.transport \notin {"stdio", "sse"} THEN <<TransportInvalid>> ELSE << >>)

\* Mutant of MergeMeta: a key of the tool descriptor wins over the result's.
MergeMetaToolWins(toolMeta, resultMeta) ==
  IF resultMeta.present \/ toolMeta.present
  THEN Obj([k \in MetaKeys |->
              IF toolMeta.kv[k] # Absent THEN toolMeta.kv[k] ELSE resultMeta.kv[k]])
  ELSE Undef

\* callTool's metadata merge: a key of the result wins over the tool's.
MergeMeta(toolMeta, resultMeta) ==
  IF resultMeta.present \/ toolMeta.present
  THEN Obj([k \in MetaKeys |->
              IF resultMeta.kv[k] # Absent THEN resultMeta.kv[k] ELSE toolMeta.kv[k]])
  ELSE Undef

\* Mutant of RegisterAll: a name that is already registered keeps its entry.
RegisterAllKeepFirst(m, n, keyed) ==
  [x \in DOMAIN m \cup DOMAIN keyed |->
     IF x \in DOMAIN m THEN m[x] ELSE [serverName |-> n, item |-> keyed[x]]]

\* The loop of registerToolsFromServer / registerResourcesFromServer: one
\* Map.set per advertised descriptor, overwriting what is there.
RegisterAll(m, n, keyed) ==
  [x \in DOMAIN m \cup DOMAIN keyed |->
     IF x \in DOMAIN keyed THEN [serverName |-> n, item |-> keyed[x]] ELSE m[x]]

ToolsByName(n) ==
  [t \in {d.name : d \in ToolCatalog(n)} |-> CHOOSE d \in ToolCatalog(n) : d.name = t]
ResourcesByUri(n) ==
  [u \in {d.uri : d \in ResourceCatalog(n)} |-> CHOOSE d \in ResourceCatalog(n) : d.uri = u]

\* The keys of the entries of map m that server n owns.
Owned(m, n) == {k \in DOMAIN m : m[k].serverName = n}

\* Mutant of RemoveOwned: the map is cleared.
RemoveEveryEntry(m, n) == Restrict(m, {})

\* Mutant of RemoveOwned: nothing is deleted.
RemoveNothing(m, n) == m

\* The loops of disconnect: delete every entry whose serverName is n.
RemoveOwned(m, n) == Restrict(m, {k \in DOMAIN m : m[k].serverName # n})

\* Mutant of CallToolLookup: the connection is looked up before the tool.
CallToolLookupConnectionFirst(name) ==
  IF \A n \in Names : connections[n] = NoClient THEN "ServerUnavailable"
  ELSE IF name \notin DOMAIN tools THEN "ToolNotFound"
  ELSE IF connections[tools[name].serverName] = NoClient THEN "ServerUnavailable"
  ELSE IF clientState[connections[tools[name].serverName]] = "closed" THEN "NotConnected"
  ELSE "forward"

\* The synchronous part of callTool: lookup of the tool, then of its
\* connection; client.callTool throws at once on a closed Client.
CallToolLookup(name) ==
  IF name \notin DOMAIN tools THEN "ToolNotFound"
  ELSE IF connections[tools[name].serverName] = NoClient THEN "ServerUnavailable"
  ELSE IF clientState[connections[tools[name].serverName]] = "closed" THEN "NotConnected"
  ELSE "forward"

(***************************************************************************)
(* MCPClient.connect                                                       *)
(***************************************************************************)
FreshClient(c) ==
  /\ clientState[c] = "none"
  /\ \A d \in ClientIds : d < c => clientState[d] # "none"

\* Mutant of ConnectCall: no guard on a name that is already connected.
ConnectCallUnguarded(cfg) ==
  \/ /\ cfg.transport # "stdio"
     /\ last' = Outcome("connect", cfg.name, "rejected", "UnsupportedTransport", "none",
                        Undef, NoName)
     /\ UNCHANGED <<connections, tools, resources, clientState, clientName, ctask,
                    discs, pending, regOrder, goneBy>>
  \/ /\ cfg.transport = "stdio"
     /\ \E c \in ClientIds :
          /\ FreshClient(c)
          /\ clientState' = [clientState EXCEPT ![c] = "connecting"]
          /\ clientName' = [clientName EXCEPT ![c] = cfg.name]
          /\ ctask' = [ctask EXCEPT ![c] = "handshake"]
     /\ last' = NoOutcome
     /\ UNCHANGED <<connections, tools, resources, discs, pending, regOrder, goneBy>>

\* Mutant of ConnectCall: every transport is treated as stdio.
ConnectCallAnyTransport(cfg) ==
  \/ /\ connections[cfg.name] # NoClient
     /\ last' = Outcome("connect", cfg.name, "resolved", "none", "already connected",
                        Undef, NoName)
     /\ UNCHANGED <<connections, tools, resources, clientState, clientName, ctask,
                    discs, pending, regOrder, goneBy>>
  \/ /\ connections[cfg.name] = NoClient
     /\ \E c \in ClientIds :
          /\ FreshClient(c)
          /\ clientState' = [clientState EXCEPT ![c] = "connecting"]
          /\ clientName' = [clientName EXCEPT ![c] = cfg.name]
          /\ ctask' = [ctask EXCEPT ![c] = "handshake"]
     /\ last' = NoOutcome
     /\ UNCHANGED <<connections, tools, resources, discs, pending, regOrder, goneBy>>

\* connect() up to its first await: the guard, the transport, new Client,
\* client.connect(transport) started.
ConnectCall(cfg) ==
  \/ /\ connections[cfg.name] # NoClient
     /\ last' = Outcome("connect", cfg.name, "resolved", "none", "already connected",
                        Undef, NoName)
     /\ UNCHANGED <<connections, tools, resources, clientState, clientName, ctask,
                    discs, pending, regOrder, goneBy>>
  \/ /\ connections[cfg.name] = NoClient
     /\ cfg.transport # "stdio"
     /\ last' = Outcome("connect", cfg.name, "rejected", "UnsupportedTransport", "none",
                        Undef, NoName)
     /\ UNCHANGED <<connections, tools, resources, clientState, clientName, ctask,
                    discs, pending, regOrder, goneBy>>
  \/ /\ connections[cfg.name] = NoClient
     /\ cfg.transport = "stdio"
     /\ \E c \in ClientIds :
          /\ FreshClient(c)
          /\ clientState' = [clientState EXCEPT ![c] = "connecting"]
          /\ clientName' = [clientName EXCEPT ![c] = cfg.name]
          /\ ctask' = [ctask EXCEPT ![c] = "handshake"]
     /\ last' = NoOutcome
     /\ UNCHANGED <<connections, tools, resources, discs, pending, regOrder, goneBy>>

\* The handshake succeeded: store the connection, then ask for the tools.
HandshakeOk(c) ==
  /\ ctask[c] = "handshake"
  /\ connections' = [connections EXCEPT ![clientName[c]] = c]
  /\ clientState' = [clientState EXCEPT ![c] = "live"]
  /\ ctask' = [ctask EXCEPT ![c] = "listTools"]
  /\ last' = NoOutcome
  /\ UNCHANGED <<tools, resources, clientName, discs, pending, regOrder, goneBy>>

\* Mutant of HandshakeFail: the connection is stored before the handshake is
\* known to have succeeded.
HandshakeFailStoresClient(c) ==
  /\ ctask[c] = "handshake"
  /\ connections' = [connections EXCEPT ![clientName[c]] = c]
  /\ clientState' = [clientState EXCEPT ![c] = "closed"]
  /\ ctask' = [ctask EXCEPT ![c] = "none"]
  /\ last' = Outcome("connect", clientName[c], "rejected", "HandshakeFailed", "none",
                     Undef, NoName)
  /\ UNCHANGED <<tools, resources, clientName, discs, pending, regOrder, goneBy>>

\* The handshake failed: connect() rethrows, nothing stored.
HandshakeFail(c) ==
  /\ ctask[c] = "handshake"
  /\ clientState' = [clientState EXCEPT ![c] = "closed"]
  /\ ctask' = [ctask EXCEPT ![c] = "none"]
  /\ last' = Outcome("connect", clientName[c], "rejected", "HandshakeFailed", "none",
                     Undef, NoName)
  /\ UNCHANGED <<connections, tools, resources, clientName, discs, pending, regOrder,
                 goneBy>>

\* connect() resolves: its task leaves the Client object.
ConnectDone(c) ==
  /\ ctask' = [ctask EXCEPT ![c] = "none"]
  /\ last' = Outcome("connect", clientName[c], "resolved", "none", "none", Undef, NoName)

\* registerToolsFromServer is over (either way); registerResourcesFromServer
\* calls client.listResources(), which throws at once on a closed Client and is
\* caught, so that connect() resolves.
AfterTools(c) ==
  IF clientState[c] = "closed"
  THEN ConnectDone(c)
  ELSE /\ ctask' = [ctask EXCEPT ![c] = "listResources"]
       /\ last' = NoOutcome

ListToolsOk(c) ==
  /\ ctask[c] = "listTools"
  /\ tools' = RegisterAll(tools, clientName[c], ToolsByName(clientName[c]))
  /\ regOrder' = [t \in ToolNames |->
       IF t \in DOMAIN ToolsByName(clientName[c])
       THEN SelectSeq(regOrder[t], LAMBDA n : n # clientName[c]) \o <<clientName[c]>>
       ELSE regOrder[t]]
  /\ goneBy' = [t \in ToolNames |->
       IF t \in DOMAIN ToolsByName(clientName[c]) THEN NoName ELSE goneBy[t]]
  /\ AfterTools(c)
  /\ UNCHANGED <<connections, resources, clientState, clientName, discs, pending>>

\* Mutant of ListToolsFail: no try/catch in registerToolsFromServer, the
\* failure rejects connect().
ListToolsFailRejectsConnect(c) ==
  /\ ctask[c] = "listTools"
  /\ ctask' = [ctask EXCEPT ![c] = "none"]
  /\ last' = Outcome("connect", clientName[c], "rejected", "ListToolsFailed", "none",
                     Undef, NoName)
  /\ UNCHANGED <<connections, tools, resources, clientState, clientName, discs, pending,
                 regOrder, goneBy>>

\* tools/list failed: logged and swallowed.
ListToolsFail(c) ==
  /\ ctask[c] = "listTools"
  /\ AfterTools(c)
  /\ UNCHANGED <<connections, tools, resources, clientState, clientName, discs, pending,
                 regOrder, goneBy>>

ListResourcesOk(c) ==
  /\ ctask[c] = "listResources"
  /\ resources' = RegisterAll(resources, clientName[c], ResourcesByUri(clientName[c]))
  /\ ConnectDone(c)
  /\ UNCHANGED <<connections, tools, clientState, clientName, discs, pending, regOrder,
                 goneBy>>

\* resources/list failed: logged and swallowed.
ListResourcesFail(c) ==
  /\ ctask[c] = "listResources"
  /\ ConnectDone(c)
  /\ UNCHANGED <<connections, tools, resources, clientState, clientName, discs, pending,
                 regOrder, goneBy>>

(***************************************************************************)
(* MCPClient.disconnect                                                    *)
(***************************************************************************)
\* Mutant of DisconnectCall: a name that is not connected still has its
\* entries removed.
DisconnectCallRemovesEntries(n) ==
  \/ /\ connections[n] = NoClient
     /\ tools' = RemoveOwned(tools, n)
     /\ resources' = RemoveOwned(resources, n)
     /\ last' = Outcome("disconnect", n, "resolved", "none", "not connected",
                        Undef, NoName)
     /\ UNCHANGED <<connections, clientState, clientName, ctask,
                    discs, pending, regOrder, goneBy>>
  \/ /\ connections[n] # NoClient
     /\ connections[n] \notin discs
     /\ discs' = discs \cup {connections[n]}
     /\ clientState' = [clientState EXCEPT ![connections[n]] =
                          IF @ = "live" THEN "closing" ELSE @]
     /\ last' = NoOutcome
     /\ UNCHANGED <<connections, tools, resources, clientName, ctask, pending,
                    regOrder, goneBy>>

\* disconnect() up to its await: the guard, then client.close() started.
DisconnectCall(n) ==
  \/ /\ connections[n] = NoClient
     /\ last' = Outcome("disconnect", n, "resolved", "none", "not connected",
                        Undef, NoName)
     /\ UNCHANGED <<connections, tools, resources, clientState, clientName, ctask,
                    discs, pending, regOrder, goneBy>>
  \/ /\ connections[n] # NoClient
     /\ connections[n] \notin discs
     /\ discs' = discs \cup {connections[n]}
     /\ clientState' = [clientState EXCEPT ![connections[n]] =
                          IF @ = "live" THEN "closing" ELSE @]
     /\ last' = NoOutcome
     /\ UNCHANGED <<connections, tools, resources, clientName, ctask, pending,
                    regOrder, goneBy>>

\* Mutant of DisconnectFinish: a tool name that the server had taken over from
\* an earlier registrant goes back to that registrant.
DisconnectFinishRestoresEarlier(c) ==
  LET n == clientName[c]
      taken == {t \in Owned(tools, n) : Len(regOrder[t]) >= 2 /\ Last(regOrder[t]) = n}
      prev(t) == regOrder[t][Len(regOrder[t]) - 1]
  IN
  /\ c \in discs
  /\ discs' = discs \ {c}
  /\ connections' = [connections EXCEPT ![n] = NoClient]
  /\ clientState' = [clientState EXCEPT ![c] = "closed"]
  /\ tools' = [t \in (DOMAIN tools \ Owned(tools, n)) \cup taken |->
                 IF t \in taken
                 THEN [serverName |-> prev(t), item |-> ToolsByName(prev(t))[t]]
                 ELSE tools[t]]
  /\ resources' = RemoveOwned(resources, n)
  /\ last' = Outcome("disconnect", n, "resolved", "none", "none", Undef, NoName)
  /\ regOrder' = [t \in ToolNames |->
       IF n \in SeqRange(regOrder[t]) THEN << >> ELSE regOrder[t]]
  /\ goneBy' = [t \in ToolNames |->
       IF t \in DOMAIN tools /\ tools[t].serverName = n THEN n ELSE goneBy[t]]
  /\ UNCHANGED <<clientName, ctask, pending>>

\* close() resolved: delete the connection and every entry of that server.
DisconnectFinish(c) ==
  LET n == clientName[c] IN
  /\ c \in discs
  /\ discs' = discs \ {c}
  /\ connections' = [connections EXCEPT ![n] = NoClient]
  /\ clientState' = [clientState EXCEPT ![c] = "closed"]
  /\ tools' = RemoveOwned(tools, n)
  /\ resources' = RemoveOwned(resources, n)
  /\ last' = Outcome("disconnect", n, "resolved", "none", "none", Undef, NoName)
  /\ regOrder' = [t \in ToolNames |->
       IF n \in SeqRange(regOrder[t]) THEN << >> ELSE regOrder[t]]
  /\ goneBy' = [t \in ToolNames |->
       IF t \in DOMAIN tools /\ tools[t].serverName = n THEN n ELSE goneBy[t]]
  /\ UNCHANGED <<clientName, ctask, pending>>

\* The provider process exits or its stream closes; nothing in MCPClient
\* listens for it, so the maps keep what they hold.
ProviderExit(c) ==
  /\ clientState[c] = "live"
  /\ clientState' = [clientState EXCEPT ![c] = "closed"]
  /\ last' = NoOutcome
  /\ UNCHANGED <<connections, tools, resources, clientName, ctask, discs, pending,
                 regOrder, goneBy>>

(***************************************************************************)
(* MCPClient.callTool                                                      *)
(***************************************************************************)
\* The round trips in flight are told apart by a slot number.
FreeSlot ==
  CHOOSE i \in 1..(Cardinality(pending) + 1) :
    /\ \A p \in pending : p.slot # i
    /\ \A j \in 1..(i - 1) : \E p \in pending : p.slot = j

CallFrame == <<connections, tools, resources, clientState, clientName, ctask, discs,
               regOrder, goneBy>>

\* callTool() up to its await.
CallTool(name) ==
  LET look == CallToolLookup(name)
      g == IF name \in ToolNames THEN goneBy[name] ELSE NoName
  IN
  /\ \/ /\ look = "ToolNotFound"
        /\ last' = Outcome("callTool", name, "rejected", "ToolNotFound", "none", Undef, g)
        /\ UNCHANGED pending
     \/ /\ look = "ServerUnavailable"
        /\ last' = Outcome("callTool", name, "rejected", "ServerUnavailable", "none",
                           Undef, g)
        /\ UNCHANGED pending
     \/ /\ look = "NotConnected"
        /\ last' = Outcome("callTool", name, "rejected", "ToolCallFailed", "none", Undef, g)
        /\ UNCHANGED pending
     \/ /\ look = "forward"
        /\ pending' = pending \cup
             {[slot |-> FreeSlot, name |-> name,
               client |-> connections[tools[name].serverName],
               tmeta |-> tools[name].item.meta]}
        /\ last' = NoOutcome
  /\ UNCHANGED CallFrame

\* The round trip is over.
CallSettled(p) ==
  /\ p \in pending
  /\ pending' = pending \ {p}
  /\ UNCHANGED CallFrame

\* The provider answered: build the ToolCallResult.
CallToolOk(p, resultMeta) ==
  /\ CallSettled(p)
  /\ last' = Outcome("callTool", p.name, "resolved", "none", "none",
                     MergeMeta(p.tmeta, resultMeta), NoName)

\* The round trip failed (tool error, closed stream, SDK request timeout).
CallToolFail(p) ==
  /\ CallSettled(p)
  /\ last' = Outcome("callTool", p.name, "rejected", "ToolCallFailed", "none", Undef, NoName)

(***************************************************************************)
(* The registry specification.                                             *)
(***************************************************************************)
RegInit ==
  /\ connections = [n \in Names |-> NoClient]
  /\ tools = << >>
  /\ resources = << >>
  /\ clientState = [c \in ClientIds |-> "none"]
  /\ clientName = [c \in ClientIds |-> NoName]
  /\ ctask = [c \in ClientIds |-> "none"]
  /\ discs = {}
  /\ pending = {}
  /\ last = NoOutcome
  /\ regOrder = [t \in ToolNames |-> << >>]
  /\ goneBy = [t \in ToolNames |-> NoName]

BridgeIdle ==
  /\ wsClients = {}
  /\ chanState = [c \in Channels |-> "connecting"]
  /\ sent = [c \in Channels |-> << >>]
  /\ htasks = {}
  /\ received = << >>

\* No component is mounted in the page.
ClientIdle ==
  /\ skipWebSocket = FALSE
  /\ ws = NoSocket
  /\ sockState = [s \in Sockets |-> "none"]
  /\ listeners = [s \in Sockets |-> {}]
  /\ calls = [k \in CallIds |-> NoCall]
  /\ wire = {}
  /\ nullTimers = {}
  /\ now = 0

MetaIdle ==
  /\ mTool = Undef
  /\ mResult = Undef
  /\ mMerged = Undef
  /\ mDone = FALSE

\* Every send succeeds.
FaultIdle ==
  /\ broken = {}
  /\ raised = {}

\* No HTTP request was made.
HttpIdle ==
  /\ httpTasks = {}
  /\ httpLog = << >>

\* No resource is being read.
ReadsIdle == reads = {}

\* Nothing was validated.
ConfigIdle ==
  /\ vConfig = NoConfig
  /\ vErrors = << >>
  /\ vDone = FALSE

\* Startup is not running.
BootIdle ==
  /\ bootList = << >>
  /\ bootPos = 0
  /\ bootBusy = FALSE
  /\ bootListed = FALSE
  /\ bootLog = << >>
  /\ bootDone = FALSE

\* No message is being stored.
StoreIdle ==
  /\ msgParams = [f \in JsonFields |-> Missing]
  /\ msgStored = [f \in JsonFields |-> NoText]
  /\ msgRow = [f \in JsonFields |-> NoText]
  /\ msgParsed = [f \in JsonFields |-> Missing]
  /\ msgStage = "new"

RestIdle == FaultIdle /\ HttpIdle /\ ReadsIdle /\ ConfigIdle /\ BootIdle /\ StoreIdle

Init == RegInit /\ BridgeIdle /\ ClientIdle /\ MetaIdle /\ RestIdle

\* A step of the registry alone: the bridge stands still.
OnRegistry(A) == A /\ UNCHANGED <<bridgeVars, clientVars, metaVars, faultVars, restVars>>

Next ==
  \/ \E cfg \in Configs : OnRegistry(ConnectCall(cfg))
  \/ \E c \in ClientIds : OnRegistry(HandshakeOk(c))
  \/ \E c \in ClientIds : OnRegistry(HandshakeFail(c))
  \/ \E c \in ClientIds : OnRegistry(ListToolsOk(c))
  \/ \E c \in ClientIds : OnRegistry(ListToolsFail(c))
  \/ \E c \in ClientIds : OnRegistry(ListResourcesOk(c))
  \/ \E c \in ClientIds : OnRegistry(ListResourcesFail(c))
  \/ \E n \in Names : OnRegistry(DisconnectCall(n))
  \/ \E c \in ClientIds : OnRegistry(DisconnectFinish(c))
  \/ \E c \in ClientIds : OnRegistry(ProviderExit(c))
  \/ \E n \in CallNames :
       /\ CallToolLookup(n) = "forward" => Cardinality(pending) < MaxPending
       /\ OnRegistry(CallTool(n))
  \/ \E p \in pending, m \in ResultMetas : OnRegistry(CallToolOk(p, m))
  \/ \E p \in pending : OnRegistry(CallToolFail(p))

Spec == Init /\ [][Next]_vars

(***************************************************************************)
(* Claims about the registry.                                              *)
(***************************************************************************)
RegistryOf(n) == <<connections[n], Restrict(tools, Owned(tools, n)),
                   Restrict(resources, Owned(resources, n))>>

\* C1 (as claimed): a connect() for a name that is in the connection map is
\* rejected with AlreadyConnected and leaves that server's connection, tools
\* and resources as they were.
C1_SecondConnectRejected ==
  [][\A cfg \in Configs :
       (ConnectCall(cfg) /\ connections[cfg.name] # NoClient) =>
         /\ last'.op = "connect" /\ last'.name = cfg.name
         /\ last'.status = "rejected" /\ last'.error = "AlreadyConnected"
         /\ RegistryOf(cfg.name)' = RegistryOf(cfg.name)]_vars

\* C1 (amended): a connect() for a name that is in the connection map resolves
\* at once with a warning, creates no Client object and leaves that server's
\* connection, tools and resources as they were.
C1_SecondConnectIsNoOp ==
  [][\A cfg \in Configs :
       (ConnectCall(cfg) /\ connections[cfg.name] # NoClient) =>
         /\ last'.op = "connect" /\ last'.name = cfg.name
         /\ last'.status = "resolved" /\ last'.warn = "already connected"
         /\ RegistryOf(cfg.name)' = RegistryOf(cfg.name)
         /\ clientState' = clientState /\ ctask' = ctask]_vars

C1_Witness ==
  /\ last.op = "connect" /\ last.name = "A" /\ last.warn = "already connected"
  /\ connections["A"] # NoClient
  /\ Owned(tools, "A") # {} /\ Owned(resources, "A") # {}

\* C2: while no registrant of tool T has been disconnected, the tool map holds
\* exactly one entry for T, the descriptor of the server that registered T
\* last, and a callTool(T) that is forwarded goes to the Client stored for that
\* server and to no other.
C2_EntryOfLastRegistrant ==
  \A t \in ToolNames :
    regOrder[t] # << >> =>
      /\ t \in DOMAIN tools
      /\ tools[t] = [serverName |-> Last(regOrder[t]),
                     item |-> ToolsByName(Last(regOrder[t]))[t]]

C2_ForwardedToLastRegistrant ==
  \A t \in ToolNames :
    (CallTool(t) /\ regOrder[t] # << >> /\ pending' # pending) =>
      /\ Cardinality(pending' \ pending) = 1
      /\ \A p \in pending' \ pending :
           /\ p.name = t
           /\ p.client = connections[Last(regOrder[t])]
           /\ p.tmeta = ToolsByName(Last(regOrder[t]))[t].meta

C2_LastWriterWins ==
  [](C2_EntryOfLastRegistrant) /\ [][C2_ForwardedToLastRegistrant]_vars

C2_Witness ==
  /\ regOrder["t1"] = <<"A", "B">>
  /\ connections["A"] # NoClient /\ connections["B"] # NoClient
  /\ connections["A"] # connections["B"]
  /\ \E p \in pending : p.name = "t1" /\ p.client = connections["B"]

\* C3: the step that completes disconnect(A) leaves no tool or resource entry
\* owned by A and no connection under A, and keeps every entry and connection
\* of the other servers as it was; the step that starts it changes no map.
C3_DisconnectRemovesOnlyOwn ==
  [][/\ \A c \in ClientIds :
          DisconnectFinish(c) =>
            LET n == clientName[c] IN
            /\ connections'[n] = NoClient
            /\ Owned(tools', n) = {} /\ Owned(resources', n) = {}
            /\ tools' = Restrict(tools, DOMAIN tools \ Owned(tools, n))
            /\ resources' = Restrict(resources, DOMAIN resources \ Owned(resources, n))
            /\ \A m \in Names \ {n} : connections'[m] = connections[m]
            /\ \A d \in ClientIds \ {c} : clientState'[d] = clientState[d]
     /\ \A n \in Names :
          DisconnectCall(n) =>
            /\ connections' = connections /\ tools' = tools /\ resources' = resources
            /\ \A d \in ClientIds : clientName[d] # n => clientState'[d] = clientState[d]]_vars

C3_Witness ==
  /\ last.op = "disconnect" /\ last.name = "A" /\ last.warn = "none"
  /\ goneBy["t1"] = "A"
  /\ connections["A"] = NoClient /\ connections["B"] # NoClient
  /\ Owned(tools, "B") # {} /\ Owned(resources, "B") # {}

\* C4: callTool for a name that is no key of the tool map is rejected with
\* ToolNotFound in the same step: nothing is forwarded, no round trip is
\* pending, no Client object changes.
C4_UnknownToolRejectedAtOnce ==
  [][\A name \in CallNames :
       (CallTool(name) /\ name \notin DOMAIN tools) =>
         /\ last'.op = "callTool" /\ last'.name = name
         /\ last'.status = "rejected" /\ last'.error = "ToolNotFound"
         /\ pending' = pending
         /\ clientState' = clientState]_vars

C4_Witness ==
  /\ last.op = "callTool" /\ last.name = "zz" /\ last.error = "ToolNotFound"
  /\ \E n \in Names : connections[n] # NoClient /\ clientState[connections[n]] = "live"
  /\ DOMAIN tools # {}

\* C5 (as claimed): callTool(T) for a tool whose entry the disconnect of its
\* owner removed, and which nobody registered since, is rejected with
\* ServerUnavailable.
C5_AfterDisconnectServerUnavailable ==
  (last.op = "callTool" /\ last.gone # NoName) =>
    (last.status = "rejected" /\ last.error = "ServerUnavailable")

\* C5 (amended): callTool(T) for a tool whose entry the disconnect of its
\* owner removed, and which nobody registered since, is rejected with
\* ToolNotFound; it returns no result and is forwarded to no connection.
C5_AfterDisconnectToolNotFound ==
  (last.op = "callTool" /\ last.gone # NoName) =>
    (last.status = "rejected" /\ last.error = "ToolNotFound")

C5_Witness ==
  /\ last.op = "callTool" /\ last.name = "t1" /\ last.gone = "A"
  /\ last.error = "ToolNotFound"
  /\ connections["A"] = NoClient

\* C10: at most one Client object per name is being established or is open,
\* and every open Client is the one the connection map holds for its name.
C10_OneClientPerName ==
  /\ \A n \in Names :
       Cardinality({c \in ClientIds : clientName[c] = n
                      /\ clientState[c] \in {"connecting", "live", "closing"}}) <= 1
  /\ \A c \in ClientIds :
       clientState[c] = "live" => connections[clientName[c]] = c

\* isConnected(serverName)
IsConnected(n) == connections[n] # NoClient

\* listTools()
ListTools == {tools[t].item : t \in DOMAIN tools}

\* C11: once the provider behind a connected server has exited without a
\* disconnect, the server is not connected any more, and a callTool for one of
\* its tools fails with ServerUnavailable.
C11_DeadProviderIsDisconnected ==
  /\ \A n \in Names : IsConnected(n) => clientState[connections[n]] # "closed"
  /\ (/\ last.op = "callTool" /\ last.status = "rejected"
      /\ last.name \in DOMAIN tools
      /\ IsConnected(tools[last.name].serverName)
      /\ clientState[connections[tools[last.name].serverName]] = "closed")
       => last.error = "ServerUnavailable"

\* C12: a connect() whose handshake fails is rejected with that failure; no
\* step of the call touches the connection, tool or resource map, the Client
\* it created is never stored, and the name is not connected afterwards when
\* no other connect() was issued for it.
C12_FailedHandshakeStoresNothing ==
  [][/\ \A cfg \in Configs :
          (ConnectCall(cfg) /\ ~IsConnected(cfg.name)) =>
            connections' = connections /\ tools' = tools /\ resources' = resources
     /\ \A c \in ClientIds :
          HandshakeFail(c) =>
            /\ last'.op = "connect" /\ last'.name = clientName[c]
            /\ last'.status = "rejected" /\ last'.error = "HandshakeFailed"
            /\ connections' = connections /\ tools' = tools /\ resources' = resources
            /\ connections'[clientName[c]] # c
            /\ (\A d \in ClientIds \ {c} : clientName[d] # clientName[c])
                 => ~IsConnected(clientName[c])']_vars

C12_Witness ==
  /\ last.op = "connect" /\ last.error = "HandshakeFailed"
  /\ ~IsConnected(last.name)
  /\ Owned(tools, last.name) = {} /\ Owned(resources, last.name) = {}
  /\ \E n \in Names : IsConnected(n) /\ Owned(tools, n) # {}

\* C13 (as claimed): disconnect() for a name that is not connected is rejected
\* with NotConnected.
C13_DisconnectAbsentRejected ==
  [][\A n \in Names :
       (DisconnectCall(n) /\ ~IsConnected(n)) =>
         last'.op = "disconnect" /\ last'.status = "rejected"
           /\ last'.error = "NotConnected"]_vars

\* C13 (amended): disconnect() for a name that is not connected completes at
\* once without an error (it only warns) and leaves the connection, tool and
\* resource map as they were.
C13_DisconnectAbsentIsNoOp ==
  [][\A n \in Names :
       (DisconnectCall(n) /\ ~IsConnected(n)) =>
         /\ last'.op = "disconnect" /\ last'.name = n
         /\ last'.status = "resolved" /\ last'.warn = "not connected"
         /\ connections' = connections /\ tools' = tools /\ resources' = resources]_vars

\* A disconnect of a name that is not connected while entries attributed to
\* it are registered.
C13_Witness ==
  /\ last.op = "disconnect" /\ last.warn = "not connected"
  /\ ~IsConnected(last.name)
  /\ Owned(tools, last.name) # {}

\* C23: no callTool is forwarded to the connection of a server whose
\* disconnect() has started closing it and has not yet removed its entries.
C23_NoForwardWhileClosing ==
  [][\A name \in CallNames :
       CallTool(name) => \A p \in pending' \ pending : p.client \notin discs]_vars

\* C27: every entry of the tool map and of the resource map names a server
\* that is a key of the connection map.
C27_EveryEntryHasLiveOwner ==
  /\ \A t \in DOMAIN tools : IsConnected(tools[t].serverName)
  /\ \A u \in DOMAIN resources : IsConnected(resources[u].serverName)

\* C29: when disconnect(B) completes, a tool name that B had taken over from
\* an earlier registrant A is removed although A stays connected; until some
\* server registers the name again it is absent from listTools() and
\* callTool for it is rejected with ToolNotFound and forwarded to nobody.
C29_EarlierOwnerNotRestored ==
  /\ [](\A t \in ToolNames :
          goneBy[t] # NoName =>
            t \notin DOMAIN tools /\ \A d \in ListTools : d.name # t)
  /\ [][/\ \A c \in ClientIds :
             DisconnectFinish(c) =>
               \A t \in ToolNames :
                 (Len(regOrder[t]) >= 2 /\ Last(regOrder[t]) = clientName[c]) =>
                   /\ t \notin DOMAIN tools'
                   /\ goneBy'[t] = clientName[c]
                   /\ \A a \in SeqRange(regOrder[t]) \ {clientName[c]} :
                        connections'[a] = connections[a]
        /\ \A t \in ToolNames :
             (CallTool(t) /\ goneBy[t] # NoName) =>
               /\ last'.op = "callTool" /\ last'.status = "rejected"
               /\ last'.error = "ToolNotFound"
               /\ pending' = pending]_vars

\* A call of t1 was forwarded to A, which owned t1 first and is still live;
\* B took t1 over and was disconnected; a new call of t1 finds no tool.
C29_Witness ==
  /\ last.op = "callTool" /\ last.name = "t1" /\ last.error = "ToolNotFound"
  /\ last.gone = "B"
  /\ ~IsConnected("B")
  /\ IsConnected("A") /\ clientState[connections["A"]] = "live"
  /\ \E p \in pending : p.name = "t1" /\ p.client = connections["A"]
  /\ "t1" \in DOMAIN ToolsByName("A")

\* C30: a catalog fetch that fails after a successful handshake changes no map
\* and does not fail connect(): after a failed tool fetch the resource catalog
\* is fetched and, when that succeeds, registered, and connect() resolves; the
\* connection stored by the handshake stays in place.
C30_CatalogFailureKeepsConnection ==
  /\ [](\A c \in ClientIds :
          (/\ ctask[c] \in {"listTools", "listResources"}
           /\ clientState[c] = "live"
           /\ \A d \in ClientIds \ {c} : clientName[d] # clientName[c])
            => connections[clientName[c]] = c)
  /\ [][\A c \in ClientIds :
          /\ ListToolsFail(c) =>
               /\ connections' = connections /\ tools' = tools /\ resources' = resources
               /\ IF clientState[c] = "closed"
                  THEN last'.op = "connect" /\ last'.status = "resolved"
                  ELSE ctask'[c] = "listResources" /\ last' = NoOutcome
          /\ ListResourcesFail(c) =>
               /\ connections' = connections /\ tools' = tools /\ resources' = resources
               /\ last'.op = "connect" /\ last'.name = clientName[c]
               /\ last'.status = "resolved"
          /\ ListResourcesOk(c) =>
               /\ connections' = connections /\ tools' = tools
               /\ DOMAIN ResourcesByUri(clientName[c]) \subseteq Owned(resources', clientName[c])
               /\ last'.op = "connect" /\ last'.status = "resolved"
          /\ ListToolsOk(c) =>
               /\ connections' = connections /\ resources' = resources
               /\ DOMAIN ToolsByName(clientName[c]) \subseteq Owned(tools', clientName[c])]_vars

\* connect(A) resolved after B had registered t1: A's tool fetch failed (only B
\* ever registered t1), A's resources are registered, A is connected.
C30_Witness ==
  /\ last.op = "connect" /\ last.name = "A" /\ last.status = "resolved"
  /\ last.warn = "none"
  /\ IsConnected("A") /\ clientState[connections["A"]] = "live"
  /\ regOrder["t1"] = <<"B">>
  /\ "t1" \in DOMAIN tools /\ tools["t1"].serverName = "B"
  /\ Owned(tools, "A") = {}
  /\ Owned(resources, "A") = DOMAIN ResourcesByUri("A")

(***************************************************************************)
(* The server side of the bridge: websocket.open / message / close,        *)
(* handleWSMessage and broadcastToClients.                                 *)
(***************************************************************************)
\* An outbound envelope {type, id, payload}; payload is flattened to the one
\* key it carries, its value and (for a tool result) the merged _meta.
\* req (history): the number of the received envelope it answers, 0 if none.
Envelope(type, id, key, val, meta, req) ==
  [type |-> type, id |-> id, key |-> key, val |-> val, meta |-> meta, req |-> req]

InitEnvelope == Envelope("init", NoId, "globals", "light/en-US/inline", Undef, 0)

\* Inbound envelopes a client can send.
Inbound ==
  [type : {"tool_call"}, id : Ids, val : CallNames]
  \cup [type : {"request_display_mode"}, id : Ids, val : Modes]
  \cup [type : {"set_component_state"}, id : {NoId}, val : ComponentStates]
  \cup [type : {"follow_up_message"}, id : {NoId}, val : Prompts]
  \cup [type : {"set_widget_state"}, id : {NoId}, val : ComponentStates]

\* ws.send(JSON.stringify(envelope)) on one channel; a send that throws puts
\* nothing on the channel.
WsSend(log, c, e) == IF c \in broken THEN log ELSE [log EXCEPT ![c] = Append(@, e)]

\* Mutant of BroadcastToClients: the loop stops after the first client.
BroadcastToFirstClient(log, e) ==
  [c \in Channels |->
     IF c \in wsClients /\ \A d \in wsClients : c <= d THEN Append(log[c], e) ELSE log[c]]

\* Mutant of BroadcastToClients: no try/catch around client.send, the loop
\* ends at the first client whose send throws.
BroadcastStopsAtFailure(log, e) ==
  [c \in Channels |->
     IF c \in wsClients /\ \A d \in wsClients : d <= c => d \notin broken
     THEN Append(log[c], e) ELSE log[c]]

\* broadcastToClients(message): client.send for every member of wsClients, a
\* send that throws is caught and logged.
BroadcastToClients(log, e) ==
  [c \in Channels |-> IF c \in wsClients /\ c \notin broken THEN Append(log[c], e)
                                                          ELSE log[c]]

BridgeFrame == <<connections, tools, resources, clientState, clientName, ctask, discs,
                 regOrder, goneBy>>

\* Mutant of WsOpen: the channel joins the broadcast set, no init is sent.
WsOpenJoinsOnly(c) ==
  /\ chanState[c] = "connecting"
  /\ chanState' = [chanState EXCEPT ![c] = "open"]
  /\ wsClients' = wsClients \cup {c}
  /\ UNCHANGED <<sent, htasks, received, regVars, faultVars>>

\* websocket.open(ws)
WsOpen(c) ==
  /\ chanState[c] = "connecting"
  /\ chanState' = [chanState EXCEPT ![c] = "open"]
  /\ wsClients' = wsClients \cup {c}
  /\ sent' = WsSend(sent, c, InitEnvelope)
  /\ UNCHANGED <<htasks, received, regVars, faultVars>>

\* Mutant of WsClose: the channel stays in the broadcast set.
WsCloseKeepsMember(c) ==
  /\ chanState[c] = "open"
  /\ chanState' = [chanState EXCEPT ![c] = "closed"]
  /\ UNCHANGED <<wsClients, sent, htasks, received, regVars, faultVars>>

\* websocket.close(ws)
WsClose(c) ==
  /\ chanState[c] = "open"
  /\ chanState' = [chanState EXCEPT ![c] = "closed"]
  /\ wsClients' = wsClients \ {c}
  /\ UNCHANGED <<sent, htasks, received, regVars, faultVars>>

\* Mutant of ToolCallReply: every outcome is sent as a tool_result.
ToolCallReplyAlwaysResult(h, outcome) ==
  Envelope("tool_result", h.id, "result", outcome.name, outcome.meta, h.req)

\* The envelope the tool_call case sends when the router call has settled: the
\* result (here: which tool produced it, and its merged _meta) or the error
\* message of that call, under the id of the handler's own request.
ToolCallReply(h, outcome) ==
  IF outcome.status = "resolved"
  THEN Envelope("tool_result", h.id, "result", outcome.name, outcome.meta, h.req)
  ELSE Envelope("error", h.id, "error", outcome.error, Undef, h.req)

\* case 'tool_call' up to the await: mcpClient.callTool either throws in its
\* synchronous part (the catch sends the error at once) or is forwarded.
OnToolCall(c, m) ==
  LET h == [chan |-> c, id |-> m.id, name |-> m.val, req |-> msgCount + 1,
            slot |-> FreeSlot]
  IN
  /\ CallTool(m.val)
  /\ IF last'.op = "callTool"
     THEN /\ sent' = WsSend(sent, c, ToolCallReply(h, last'))
          /\ htasks' = htasks
          /\ raised' = IF c \in broken THEN raised \cup {h.req} ELSE raised
     ELSE /\ sent' = sent
          /\ htasks' = htasks \cup {h}
          /\ raised' = raised

\* Mutant of OnOtherMessage: request_display_mode is answered on its channel
\* and the new mode is not broadcast.
OnOtherMessageDisplayModeReplyOnly(c, m) ==
  /\ sent' =
       CASE m.type = "follow_up_message" ->
              BroadcastToClients(sent, Envelope("chat_message", NoId, "message", m.val,
                                                Undef, 0))
         [] m.type = "set_component_state" ->
              BroadcastToClients(sent, Envelope("set_globals", NoId, "componentState",
                                                m.val, Undef, 0))
         [] m.type = "request_display_mode" /\ c \in broken -> sent
         [] m.type = "request_display_mode" /\ c \notin broken ->
              WsSend(sent, c, Envelope("display_mode_response", m.id, "mode", m.val,
                                       Undef, msgCount + 1))
         [] OTHER -> sent
  /\ raised' = IF m.type = "request_display_mode" /\ c \in broken
               THEN raised \cup {msgCount + 1} ELSE raised
  /\ last' = NoOutcome
  /\ UNCHANGED <<htasks, pending>>
  /\ UNCHANGED BridgeFrame

\* Mutant of OnOtherMessage: follow_up_message is acknowledged on its channel
\* before the prompt is broadcast.
OnOtherMessageFollowUpAcknowledged(c, m) ==
  /\ sent' =
       CASE m.type = "follow_up_message" ->
              BroadcastToClients(
                WsSend(sent, c, Envelope("follow_up_response", m.id, "message", m.val,
                                         Undef, msgCount + 1)),
                Envelope("chat_message", NoId, "message", m.val, Undef, 0))
         [] m.type = "set_component_state" ->
              BroadcastToClients(sent, Envelope("set_globals", NoId, "componentState",
                                                m.val, Undef, 0))
         [] m.type = "request_display_mode" /\ c \in broken -> sent
         [] m.type = "request_display_mode" /\ c \notin broken ->
              BroadcastToClients(
                WsSend(sent, c, Envelope("display_mode_response", m.id, "mode", m.val,
                                         Undef, msgCount + 1)),
                Envelope("set_globals", NoId, "displayMode", m.val, Undef, 0))
         [] OTHER -> sent
  /\ raised' = IF m.type = "request_display_mode" /\ c \in broken
               THEN raised \cup {msgCount + 1} ELSE raised
  /\ last' = NoOutcome
  /\ UNCHANGED <<htasks, pending>>
  /\ UNCHANGED BridgeFrame

\* The other cases of handleWSMessage's switch.
OnOtherMessage(c, m) ==
  /\ sent' =
       CASE m.type = "follow_up_message" ->
              BroadcastToClients(sent, Envelope("chat_message", NoId, "message", m.val,
                                                Undef, 0))
         [] m.type = "set_component_state" ->
              BroadcastToClients(sent, Envelope("set_globals", NoId, "componentState",
                                                m.val, Undef, 0))
         [] m.type = "request_display_mode" /\ c \in broken -> sent
         [] m.type = "request_display_mode" /\ c \notin broken ->
              BroadcastToClients(
                WsSend(sent, c, Envelope("display_mode_response", m.id, "mode", m.val,
                                         Undef, msgCount + 1)),
                Envelope("set_globals", NoId, "displayMode", m.val, Undef, 0))
         [] OTHER -> sent
  /\ raised' = IF m.type = "request_display_mode" /\ c \in broken
               THEN raised \cup {msgCount + 1} ELSE raised
  /\ last' = NoOutcome
  /\ UNCHANGED <<htasks, pending>>
  /\ UNCHANGED BridgeFrame

\* websocket.message(ws, message): parse, then handleWSMessage(ws, data).
WsMessage(c, m) ==
  /\ chanState[c] = "open"
  /\ msgCount < MaxMsgs
  /\ received' = Append(received, [chan |-> c, type |-> m.type, id |-> m.id, val |-> m.val])
  /\ IF m.type = "tool_call"
     THEN /\ CallToolLookup(m.val) = "forward" => Cardinality(htasks) < MaxInFlight
          /\ OnToolCall(c, m)
     ELSE OnOtherMessage(c, m)
  /\ UNCHANGED <<wsClients, chanState, broken>>

\* The router call of a suspended tool_call handler settles: the handler sends
\* tool_result or error on its own channel.
\* Mutant of HandlerOf: a handler is resumed with the round trip that has been
\* pending longest, whoever started it.
HandlerOfOldest(h) == CHOOSE p \in pending : \A q \in pending : p.slot <= q.slot

HandlerOf(h) == CHOOSE p \in pending : p.slot = h.slot

ToolCallSettled(h) ==
  /\ h \in htasks
  /\ htasks' = htasks \ {h}
  /\ sent' = WsSend(sent, h.chan, ToolCallReply(h, last'))
  /\ raised' = IF h.chan \in broken THEN raised \cup {h.req} ELSE raised
  /\ UNCHANGED <<wsClients, chanState, received, broken>>

ToolCallResolved(h, resultMeta) ==
  /\ h \in htasks
  /\ CallToolOk(HandlerOf(h), resultMeta)
  /\ ToolCallSettled(h)

ToolCallRejected(h) ==
  /\ h \in htasks
  /\ CallToolFail(HandlerOf(h))
  /\ ToolCallSettled(h)

(***************************************************************************)
(* The bridge specification: the registry is as startup left it (A, then   *)
(* B connected), and B's provider may have exited since.                   *)
(***************************************************************************)
BridgeInit ==
  /\ connections = [n \in Names |-> CASE n = "A" -> 1 [] n = "B" -> 2 [] OTHER -> NoClient]
  /\ tools = RegisterAll(RegisterAll(<< >>, "A", ToolsByName("A")), "B", ToolsByName("B"))
  /\ resources = RegisterAll(RegisterAll(<< >>, "A", ResourcesByUri("A")), "B",
                             ResourcesByUri("B"))
  /\ clientState \in {[c \in ClientIds |-> IF c <= 2 THEN "live" ELSE "none"],
                      [c \in ClientIds |-> CASE c = 1 -> "live" [] c = 2 -> "closed"
                                             [] OTHER -> "none"]}
  /\ clientName = [c \in ClientIds |-> CASE c = 1 -> "A" [] c = 2 -> "B" [] OTHER -> NoName]
  /\ ctask = [c \in ClientIds |-> "none"]
  /\ discs = {}
  /\ pending = {}
  /\ last = NoOutcome
  /\ regOrder = [t \in ToolNames |-> IF t = "t1" THEN <<"A", "B">> ELSE <<"B">>]
  /\ goneBy = [t \in ToolNames |-> NoName]
  /\ BridgeIdle
  /\ ClientIdle
  /\ MetaIdle
  /\ RestIdle

\* A step of the server: the page and the merge inputs stand still.
OnServer(A) == A /\ UNCHANGED <<clientVars, metaVars, restVars>>

BridgeNext ==
  \/ \E c \in Channels : OnServer(WsOpen(c))
  \/ \E c \in Channels : OnServer(WsClose(c))
  \/ \E c \in Channels, m \in Inbound : OnServer(WsMessage(c, m))
  \/ \E h \in htasks, m \in ResultMetas : OnServer(ToolCallResolved(h, m))
  \/ \E h \in htasks : OnServer(ToolCallRejected(h))

SpecBridge == BridgeInit /\ [][BridgeNext]_vars

\* The MCP SDK fails a request that got no answer within its request timeout,
\* so every round trip settles.
SpecBridgeFair ==
  /\ SpecBridge
  /\ \A s \in 1..MaxInFlight :
       WF_vars(\E h \in htasks : h.slot = s /\
                 OnServer(ToolCallRejected(h) \/ \E m \in ResultMetas : ToolCallResolved(h, m)))

(***************************************************************************)
(* The page side of the bridge: ComponentProvider's socket effect, callTool *)
(* and requestDisplayMode (lib/component-context.tsx).                     *)
(***************************************************************************)
\* resolve()/reject() of a promise: only the first one takes effect.
Settle(call, state, outcome) ==
  IF call.state = "pending" THEN [call EXCEPT !.state = state, !.outcome = outcome]
  ELSE call

\* ws?.removeEventListener('message', handler) for the handlers in hs: it
\* addresses whatever the module variable ws holds when it runs.
RemoveEventListener(ls, hs) ==
  IF ws = NoSocket THEN ls ELSE [ls EXCEPT ![ws] = @ \ hs]

FreshSocket == CHOOSE s \in Sockets : sockState[s] = "none" /\ \A t \in 1..(s - 1) : sockState[t] # "none"
FreshCall == CHOOSE k \in CallIds : calls[k].state = "none" /\ \A j \in 1..(k - 1) : calls[j].state # "none"

\* The socket effect of a mounting ComponentProvider.
Mount ==
  /\ ~skipWebSocket
  /\ IF ws = NoSocket THEN TRUE ELSE sockState[ws] = "closed"
  /\ \E s \in Sockets : sockState[s] = "none"
  /\ ws' = FreshSocket
  /\ sockState' = [sockState EXCEPT ![FreshSocket] = "connecting"]
  /\ UNCHANGED <<skipWebSocket, listeners, calls, wire, nullTimers, now>>

\* ws.onopen
SocketOpen(s) ==
  /\ sockState[s] = "connecting"
  /\ sockState' = [sockState EXCEPT ![s] = "open"]
  /\ UNCHANGED <<skipWebSocket, ws, listeners, calls, wire, nullTimers, now>>

\* ws.onclose: the socket is CLOSED, what was on its way is lost, and the
\* callback that forgets the socket is scheduled.
SocketClose(s) ==
  /\ sockState[s] \in {"connecting", "open"}
  /\ sockState' = [sockState EXCEPT ![s] = "closed"]
  /\ wire' = {r \in wire : r.sock # s}
  /\ nullTimers' = nullTimers \cup {[sock |-> s, due |-> now + ReconnectDelay]}
  /\ UNCHANGED <<skipWebSocket, ws, listeners, calls, now>>

\* The callback scheduled by onclose.
ForgetSocket(t) ==
  /\ t \in nullTimers
  /\ now >= t.due
  /\ nullTimers' = nullTimers \ {t}
  /\ ws' = IF ws # NoSocket /\ sockState[ws] = "closed" THEN NoSocket ELSE ws
  /\ UNCHANGED <<skipWebSocket, sockState, listeners, calls, wire, now>>

\* The executor shared by callTool and requestDisplayMode.
Request(kind, timeout) ==
  LET k == FreshCall
      id == <<kind, now>>
      refused(why) == [NoCall EXCEPT !.state = "rejected", !.kind = kind, !.outcome = why]
  IN
  /\ \E j \in CallIds : calls[j].state = "none"
  /\ IF skipWebSocket
     THEN /\ calls' = [calls EXCEPT ![k] = refused("static")]
          /\ UNCHANGED <<listeners, wire>>
     ELSE IF ws = NoSocket \/ sockState[ws] # "open"
     THEN /\ calls' = [calls EXCEPT ![k] = refused("not connected")]
          /\ UNCHANGED <<listeners, wire>>
     ELSE /\ listeners' = [listeners EXCEPT ![ws] = @ \cup {k}]
          /\ wire' = wire \cup {[sock |-> ws, kind |-> kind, id |-> id, call |-> k]}
          /\ calls' = [calls EXCEPT ![k] =
                         [state |-> "pending", kind |-> kind, id |-> id, sock |-> ws,
                          outcome |-> "none", timer |-> "armed", due |-> now + timeout]]
  /\ UNCHANGED <<skipWebSocket, ws, sockState, nullTimers, now>>

\* callTool(name, args)
ClientCallTool == Request("tool", ToolTimeout)

\* requestDisplayMode(mode)
RequestDisplayMode == Request("display", DisplayTimeout)

\* The envelope types the server answers a request with.
ReplyTypes(kind) ==
  IF kind = "tool" THEN {"tool_result", "error"} ELSE {"display_mode_response"}

\* What the handler of call does with an envelope whose id equals its own.
OnMatch(call, type) ==
  IF call.kind = "display" THEN Settle(call, "resolved", type)
  ELSE IF type = "tool_result" THEN Settle(call, "resolved", type)
  ELSE IF type = "error" THEN Settle(call, "rejected", type)
  ELSE call

\* A 'message' event on r.sock carrying the server's answer to request r:
\* every handler registered on the socket runs.
Deliver(r, type) ==
  LET matching == {k \in listeners[r.sock] : calls[k].id = r.id} IN
  /\ r \in wire
  /\ sockState[r.sock] = "open"
  /\ type \in ReplyTypes(r.kind)
  /\ wire' = wire \ {r}
  /\ listeners' = RemoveEventListener(listeners, matching)
  /\ calls' = [k \in CallIds |-> IF k \in matching THEN OnMatch(calls[k], type) ELSE calls[k]]
  /\ UNCHANGED <<skipWebSocket, ws, sockState, nullTimers, now>>

\* Mutant of TimerFire: the timeout rejects but leaves the handler registered.
TimerFireKeepsHandler(k) ==
  /\ calls[k].timer = "armed"
  /\ now >= calls[k].due
  /\ listeners' = listeners
  /\ calls' = [calls EXCEPT ![k] = [Settle(@, "rejected", "timeout") EXCEPT !.timer = "fired"]]
  /\ UNCHANGED <<skipWebSocket, ws, sockState, wire, nullTimers, now>>

\* The setTimeout callback of call k.
TimerFire(k) ==
  /\ calls[k].timer = "armed"
  /\ now >= calls[k].due
  /\ listeners' = RemoveEventListener(listeners, {k})
  /\ calls' = [calls EXCEPT ![k] = [Settle(@, "rejected", "timeout") EXCEPT !.timer = "fired"]]
  /\ UNCHANGED <<skipWebSocket, ws, sockState, wire, nullTimers, now>>

\* Time passes: to the next millisecond after a request was made, or to the
\* next moment a scheduled callback falls due.
Dues == {calls[k].due : k \in {j \in CallIds : calls[j].timer = "armed"}}
          \cup {t.due : t \in nullTimers}

Tick ==
  /\ \/ /\ \E k \in CallIds : calls[k].state # "none" /\ calls[k].id[2] = now
        /\ now' = now + 1
     \/ /\ \E d \in Dues : d > now
        /\ now' = CHOOSE d \in Dues : d > now /\ \A e \in Dues : e > now => d <= e
  /\ UNCHANGED <<skipWebSocket, ws, sockState, listeners, calls, wire, nullTimers>>

(***************************************************************************)
(* The page specification.                                                 *)
(***************************************************************************)
ClientInit ==
  /\ skipWebSocket \in BOOLEAN
  /\ ws = NoSocket
  /\ sockState = [s \in Sockets |-> "none"]
  /\ listeners = [s \in Sockets |-> {}]
  /\ calls = [k \in CallIds |-> NoCall]
  /\ wire = {}
  /\ nullTimers = {}
  /\ now = 0
  /\ RegInit
  /\ BridgeIdle
  /\ MetaIdle
  /\ RestIdle

\* A step of the page: the server and the merge inputs stand still.
OnPage(A) == A /\ UNCHANGED <<regVars, bridgeVars, metaVars, faultVars, restVars>>

ClientNext ==
  \/ OnPage(Mount)
  \/ \E s \in Sockets : OnPage(SocketOpen(s))
  \/ \E s \in Sockets : OnPage(SocketClose(s))
  \/ \E t \in nullTimers : OnPage(ForgetSocket(t))
  \/ OnPage(ClientCallTool)
  \/ OnPage(RequestDisplayMode)
  \/ \E r \in wire, ty \in ReplyTypes("tool") \cup ReplyTypes("display") : OnPage(Deliver(r, ty))
  \/ \E k \in CallIds : OnPage(TimerFire(k))
  \/ OnPage(Tick)

SpecClient == ClientInit /\ [][ClientNext]_vars

\* The page's clock advances and the callbacks of setTimeout run.
SpecClientFair ==
  /\ SpecClient
  /\ WF_vars(OnPage(Tick))
  /\ \A k \in CallIds : WF_vars(OnPage(TimerFire(k)))

(***************************************************************************)
(* The merge specification: callTool's metadata merge on every pair of     *)
(* tool and result _meta.                                                  *)
(***************************************************************************)
MetaInit ==
  /\ mTool \in Metas
  /\ mResult \in Metas
  /\ mMerged = Undef
  /\ mDone = FALSE
  /\ RegInit
  /\ BridgeIdle
  /\ ClientIdle
  /\ RestIdle

\* callTool's return value after a successful round trip.
CallToolReturn ==
  /\ ~mDone
  /\ mMerged' = MergeMeta(mTool, mResult)
  /\ mDone' = TRUE
  /\ UNCHANGED <<mTool, mResult, regVars, bridgeVars, clientVars, faultVars, restVars>>

MetaNext == CallToolReturn

SpecMeta == MetaInit /\ [][MetaNext]_vars

(***************************************************************************)
(* Claims about the server side of the bridge.                             *)
(***************************************************************************)
\* Positions <<channel, index>> of the envelopes in log that answer request k.
Answers(log, k) ==
  {ci \in Channels \X (1..(2 * MaxMsgs + 1)) :
     ci[2] <= Len(log[ci[1]]) /\ log[ci[1]][ci[2]].req = k}
\* Positions of the envelopes in log that carry correlation id x.
WithId(log, x) ==
  {ci \in Channels \X (1..(2 * MaxMsgs + 1)) :
     ci[2] <= Len(log[ci[1]]) /\ log[ci[1]][ci[2]].id = x}
ToolCallsReceived == {k \in 1..Len(received) : received[k].type = "tool_call"}

\* C6 (as claimed): for a tool_call with id X received on channel C, at most
\* one envelope with id X is ever sent on C and none on any other channel.
C6_OneEnvelopePerId ==
  \A k \in ToolCallsReceived :
    /\ Cardinality({ci \in WithId(sent, received[k].id) : ci[1] = received[k].chan}) <= 1
    /\ \A ci \in WithId(sent, received[k].id) : ci[1] = received[k].chan

\* The server answers a tool_call at most once, on the channel it came in on,
\* with its id, and not before the router call has settled.
C6_AnsweredAtMostOnce ==
  \A k \in ToolCallsReceived :
    /\ Cardinality(Answers(sent, k)) <= 1
    /\ \A ci \in Answers(sent, k) :
         /\ ci[1] = received[k].chan
         /\ sent[ci[1]][ci[2]].id = received[k].id
         /\ sent[ci[1]][ci[2]].type \in {"tool_result", "error"}
    /\ (Answers(sent, k) = {}) <=> (\E h \in htasks : h.req = k)

\* The answer is sent in the step the router call settles, and it is a
\* tool_result when the call resolved and an error when it was rejected.
C6_TypeFollowsOutcome ==
  \A k \in 1..MaxMsgs :
    (/\ k <= Len(received') /\ received'[k].type = "tool_call"
     /\ Answers(sent, k) = {} /\ Answers(sent', k) # {}) =>
      /\ last'.op = "callTool"
      /\ \A ci \in Answers(sent', k) :
           sent'[ci[1]][ci[2]].type =
             IF last'.status = "resolved" THEN "tool_result" ELSE "error"

\* C6 (amended): every tool_call envelope received on channel C with id X is
\* eventually answered by exactly one envelope, sent on C and on no other
\* channel, carrying id X, of type tool_result when the router call succeeded
\* and error when it failed. Requests that share an id are answered each.
C6_EachToolCallAnsweredOnce ==
  /\ [](C6_AnsweredAtMostOnce)
  /\ [][C6_TypeFollowsOutcome]_vars
  /\ \A k \in 1..MaxMsgs :
       (k \in ToolCallsReceived) ~> (Cardinality(Answers(sent, k)) = 1)

\* Two tool_calls with the same id, the first forwarded and answered with a
\* tool_result after the second was rejected at once with an error.
C6_Witness ==
  /\ Len(received) = 2
  /\ received[1].type = "tool_call" /\ received[2].type = "tool_call"
  /\ received[1].id = received[2].id
  /\ htasks = {}
  /\ \E ci \in Answers(sent, 1) : sent[ci[1]][ci[2]].type = "tool_result"
  /\ \E ci \in Answers(sent, 2) : sent[ci[1]][ci[2]].type = "error"
  /\ \E c \in Channels : Len(sent[c]) >= 3 /\ sent[c][2].req = 2 /\ sent[c][3].req = 1

\* C8: when the server receives set_component_state with state S from channel
\* C1, every other channel that is open gets exactly one more envelope, the
\* set_globals whose componentState is S.
C8_StateBroadcastToOthers ==
  [][(Len(received') = Len(received) + 1 /\ Last(received').type = "set_component_state") =>
       \A d \in Channels \ {Last(received').chan} :
         chanState[d] = "open" =>
           sent'[d] = Append(sent[d],
                             [type |-> "set_globals", id |-> NoId, key |-> "componentState",
                              val |-> Last(received').val, meta |-> Undef, req |-> 0])]_vars

C8_Witness ==
  /\ Len(received) >= 1
  /\ received[1].type = "set_component_state" /\ received[1].chan = 1
  /\ chanState[2] = "open"
  /\ Len(sent[2]) = 2
  /\ sent[2][2].type = "set_globals" /\ sent[2][2].key = "componentState"
  /\ sent[2][2].val = received[1].val

(***************************************************************************)
(* Claims about the page side of the bridge.                               *)
(***************************************************************************)
Sent(k) == calls[k].timer # "none"
Settled(k) == calls[k].state \in {"resolved", "rejected"}

\* A settled promise keeps its outcome.
C7_OutcomeIsFinal ==
  \A k \in CallIds :
    Settled(k) => calls'[k].state = calls[k].state /\ calls'[k].outcome = calls[k].outcome

\* The first answer with the call's id that arrives while it is pending settles
\* it; an answer that arrives after the timeout changes nothing and finds no
\* waiter.
C7_ResponseStep ==
  \A r \in wire, ty \in {"tool_result", "error", "display_mode_response"} :
    Deliver(r, ty) =>
      \A k \in CallIds :
        (Sent(k) /\ calls[k].id = r.id /\ calls[k].sock = r.sock) =>
          /\ calls[k].state = "pending" =>
               /\ calls'[k].outcome = ty
               /\ calls'[k].state = IF ty = "error" THEN "rejected" ELSE "resolved"
          /\ calls[k].outcome = "timeout" => calls'[k] = calls[k]
          /\ \A s \in Sockets : k \notin listeners'[s]

\* The timer settles a pending call with the timeout failure; after an answer
\* has settled the call it changes nothing and no waiter is left.
C7_TimerStep ==
  \A k \in CallIds :
    TimerFire(k) =>
      /\ calls[k].state = "pending" =>
           calls'[k].state = "rejected" /\ calls'[k].outcome = "timeout"
      /\ calls[k].outcome \in {"tool_result", "error", "display_mode_response"} =>
           /\ calls'[k].state = calls[k].state /\ calls'[k].outcome = calls[k].outcome
           /\ \A s \in Sockets : k \notin listeners'[s]

\* A call is pending exactly while its waiter can still hear an answer or its
\* timer is still to fire, and the waiter of a settled call is registered on
\* no socket that can deliver a message.
C7_WaiterGone ==
  \A k \in CallIds :
    /\ calls[k].state = "pending" => calls[k].timer = "armed"
    /\ (Sent(k) /\ Settled(k)) =>
         \A s \in Sockets : k \in listeners[s] => sockState[s] = "closed"

C28_DistinctCorrelationIds ==
  /\ [](\A j, k \in CallIds :
          (/\ j # k /\ calls[j].kind = calls[k].kind
           /\ calls[j].state = "pending" /\ calls[k].state = "pending")
            => calls[j].id # calls[k].id)
  /\ [][\A r \in wire, ty \in {"tool_result", "error", "display_mode_response"} :
          Deliver(r, ty) => \A k \in CallIds \ {r.call} : calls'[k] = calls[k]]_vars

(***************************************************************************)
(* Claims about the metadata merge.                                        *)
(***************************************************************************)
Has(m, k) == m.present /\ m.kv[k] # Absent

\* C9: the _meta of a successful callTool is the key-wise union of the tool
\* descriptor's _meta and the result's _meta, the result's value winning for a
\* key both have, and it is absent exactly when both are absent.
C9_MetaIsKeywiseUnion ==
  mDone =>
    /\ mMerged.present <=> (mTool.present \/ mResult.present)
    /\ \A k \in MetaKeys :
         /\ Has(mResult, k) => Has(mMerged, k) /\ mMerged.kv[k] = mResult.kv[k]
         /\ (Has(mTool, k) /\ ~Has(mResult, k)) =>
              Has(mMerged, k) /\ mMerged.kv[k] = mTool.kv[k]
         /\ (~Has(mTool, k) /\ ~Has(mResult, k)) => ~Has(mMerged, k)

C9_Witness ==
  /\ mDone
  /\ Has(mTool, "componentId") /\ Has(mResult, "componentId")
  /\ mTool.kv["componentId"] # mResult.kv["componentId"]
  /\ Has(mTool, "accessible") /\ ~Has(mResult, "accessible")
  /\ mMerged.kv["componentId"] = mResult.kv["componentId"]
  /\ mMerged.kv["accessible"] = mTool.kv["accessible"]

(***************************************************************************)
(* The configuration specification: one MCPServerConfig is validated and   *)
(* handed to connect().                                                    *)
(***************************************************************************)
ConfigInit ==
  /\ vConfig \in ConfigInputs
  /\ vErrors = << >>
  /\ vDone = FALSE
  /\ RegInit
  /\ BridgeIdle
  /\ ClientIdle
  /\ MetaIdle
  /\ FaultIdle
  /\ HttpIdle
  /\ ReadsIdle
  /\ BootIdle
  /\ StoreIdle

\* validateMCPConfig(vConfig)
Validate ==
  /\ ~vDone
  /\ vErrors' = ValidateMCPConfig(vConfig)
  /\ vDone' = TRUE
  /\ UNCHANGED <<vConfig, regVars, bridgeVars, clientVars, metaVars, faultVars, httpVars,
                 reads, bootVars, storeVars>>

ConfigNext ==
  \/ Validate
  \/ vConfig.name \in Names /\ OnRegistry(ConnectCall(vConfig))
  \/ \E c \in ClientIds : OnRegistry(HandshakeOk(c))
  \/ \E c \in ClientIds : OnRegistry(HandshakeFail(c))
  \/ \E c \in ClientIds : OnRegistry(ListToolsOk(c))
  \/ \E c \in ClientIds : OnRegistry(ListToolsFail(c))
  \/ \E c \in ClientIds : OnRegistry(ListResourcesOk(c))
  \/ \E c \in ClientIds : OnRegistry(ListResourcesFail(c))

SpecConfig == ConfigInit /\ [][ConfigNext]_vars

Violated(config) ==
  {e \in {NameRequired, CommandRequired, TransportInvalid} :
     \/ e = NameRequired /\ config.name = ""
     \/ e = CommandRequired /\ config.command = ""
     \/ e = TransportInvalid /\ config.transport # "stdio" /\ config.transport # "sse"}

\* C15: validateMCPConfig returns exactly one message per violated rule and
\* no other; it returns the empty list for a config with a name, a command
\* and transport stdio or sse, whatever args, env and url are.
C15_OneErrorPerViolatedRule ==
  vDone =>
    /\ SeqRange(vErrors) = Violated(vConfig)
    /\ Len(vErrors) = Cardinality(Violated(vConfig))
    /\ (vConfig.name # "" /\ vConfig.command # "" /\ vConfig.transport \in {"stdio", "sse"})
         => vErrors = << >>

\* All three rules violated at once.
C15_Witness ==
  /\ vDone
  /\ vConfig.name = "" /\ vConfig.command = "" /\ vConfig.transport = "http"
  /\ Len(vErrors) = 3

(***************************************************************************)
(* The broadcast specification: the bridge when the send of a member of    *)
(* the broadcast set can throw, which is what the try/catch of             *)
(* broadcastToClients provides for.                                        *)
(***************************************************************************)
\* From now on every send on channel c throws.
WsBreak(c) ==
  /\ c \in wsClients
  /\ c \notin broken
  /\ broken' = broken \cup {c}
  /\ UNCHANGED <<raised, bridgeVars, regVars>>

BroadcastNext ==
  \/ \E c \in Channels : OnServer(WsOpen(c))
  \/ \E c \in Channels : OnServer(WsClose(c))
  \/ \E c \in Channels : OnServer(WsBreak(c))
  \/ \E c \in Channels, m \in Inbound : OnServer(WsMessage(c, m))
  \/ \E h \in htasks, m \in ResultMetas : OnServer(ToolCallResolved(h, m))
  \/ \E h \in htasks : OnServer(ToolCallRejected(h))

SpecBroadcast == BridgeInit /\ [][BroadcastNext]_vars

(***************************************************************************)
(* Claims about the channels and the broadcast.                            *)
(***************************************************************************)
\* C16: on every channel that has opened the first envelope is the init
\* envelope (light, en-US, inline), no other envelope on it is an init, and a
\* channel that has not opened has been sent nothing.
C16_InitFirstAndOnce ==
  \A c \in Channels :
    /\ chanState[c] = "connecting" => sent[c] = << >>
    /\ chanState[c] # "connecting" =>
         /\ Len(sent[c]) >= 1
         /\ sent[c][1].type = "init" /\ sent[c][1].val = "light/en-US/inline"
         /\ \A i \in 2..Len(sent[c]) : sent[c][i].type # "init"

\* A channel that got its init and, after it, a broadcast and an answer.
C16_Witness ==
  \E c \in Channels :
    /\ Len(sent[c]) = 3
    /\ sent[c][1].type = "init"
    /\ sent[c][2].type = "set_globals"
    /\ sent[c][3].type = "tool_result"

\* The broadcast envelope the server sends for an inbound envelope m.
BroadcastFor(m) ==
  CASE m.type = "follow_up_message" ->
         [type |-> "chat_message", id |-> NoId, key |-> "message", val |-> m.val,
          meta |-> Undef, req |-> 0]
    [] m.type = "set_component_state" ->
         [type |-> "set_globals", id |-> NoId, key |-> "componentState", val |-> m.val,
          meta |-> Undef, req |-> 0]
    [] OTHER ->
         [type |-> "set_globals", id |-> NoId, key |-> "displayMode", val |-> m.val,
          meta |-> Undef, req |-> 0]

\* The step handles an inbound envelope that makes the server broadcast.
Broadcasting ==
  /\ Len(received') = Len(received) + 1
  /\ \/ Last(received').type \in {"follow_up_message", "set_component_state"}
     \/ /\ Last(received').type = "request_display_mode"
        /\ Last(received').chan \notin broken

\* C17: when the send to a member of the broadcast set throws during a
\* broadcast, every other member is sent the envelope, the failing channel
\* stays in the set and the handler that broadcast does not throw.
C17_BroadcastSurvivesFailure ==
  [][(Broadcasting /\ wsClients \cap broken # {}) =>
       /\ \A d \in wsClients \ broken :
            /\ Len(sent'[d]) > Len(sent[d])
            /\ Last(sent'[d]) = BroadcastFor(Last(received'))
       /\ \A d \in wsClients \cap broken : sent'[d] = sent[d]
       /\ wsClients' = wsClients
       /\ Len(received') \notin raised']_vars

\* Channel 1, whose send throws, asked for a broadcast: channel 2 got it,
\* channel 1 did not and is still a member, and the handler did not throw.
C17_Witness ==
  /\ Len(received) = 1
  /\ received[1].type = "set_component_state" /\ received[1].chan = 1
  /\ 1 \in broken /\ wsClients = {1, 2}
  /\ Len(sent[1]) = 1
  /\ Len(sent[2]) = 2 /\ sent[2][2] = BroadcastFor(received[1])
  /\ raised = {}

IsBroadcast(e) == e.req = 0 /\ e.type # "init"

\* C18: the broadcast set is the set of channels that have opened and not
\* closed; nothing is broadcast to a closed channel; a close removes that one
\* channel and leaves the other channels and the registry as they were.
C18_BroadcastSetIsOpenChannels ==
  /\ [](wsClients = {c \in Channels : chanState[c] = "open"})
  /\ [][/\ \A c \in Channels :
             chanState[c] = "closed" =>
               SelectSeq(sent'[c], IsBroadcast) = SelectSeq(sent[c], IsBroadcast)
        /\ \A c \in Channels :
             WsClose(c) =>
               /\ wsClients' = wsClients \ {c}
               /\ \A d \in Channels \ {c} : chanState'[d] = chanState[d]
               /\ connections' = connections /\ tools' = tools
               /\ resources' = resources]_vars

\* Channel 1 sent an envelope and closed; the broadcast that channel 2 asked
\* for afterwards reached channel 2 only.
C18_Witness ==
  /\ Len(received) = 2
  /\ received[1].chan = 1 /\ received[1].type = "set_widget_state"
  /\ received[2].chan = 2 /\ received[2].type = "set_component_state"
  /\ chanState[1] = "closed" /\ wsClients = {2}
  /\ SelectSeq(sent[1], IsBroadcast) = << >>
  /\ SelectSeq(sent[2], IsBroadcast) = <<BroadcastFor(received[2])>>

\* The received envelopes of one type, by their number.
ReceivedOfType(type) == {k \in 1..Len(received) : received[k].type = type}

\* The step in which the server receives an envelope of the given type.
Receives(type) == Len(received') = Len(received) + 1 /\ Last(received').type = type

\* The answer to the request_display_mode envelope m, received as number k.
DisplayModeResponse(m, k) ==
  [type |-> "display_mode_response", id |-> m.id, key |-> "mode", val |-> m.val,
   meta |-> Undef, req |-> k]

\* C21: for a request_display_mode with id X and mode M received on channel
\* C, the server sends on C exactly one response, bearing X and M, in the step
\* it receives the request, and in that step every open channel, C included,
\* gets one set_globals with displayMode M; no other channel gets anything.
C21_DisplayModeAnsweredAndBroadcast ==
  /\ [](\A k \in ReceivedOfType("request_display_mode") :
          /\ Cardinality(Answers(sent, k)) = 1
          /\ \A ci \in Answers(sent, k) :
               /\ ci[1] = received[k].chan
               /\ sent[ci[1]][ci[2]] = DisplayModeResponse(received[k], k))
  /\ [][Receives("request_display_mode") =>
          LET m == Last(received') IN
          \A d \in Channels :
            sent'[d] =
              IF d = m.chan
              THEN sent[d] \o <<DisplayModeResponse(m, Len(received')), BroadcastFor(m)>>
              ELSE IF chanState[d] = "open" THEN Append(sent[d], BroadcastFor(m))
              ELSE sent[d]]_vars

\* Channel 1 asked for a display mode while channel 2 was open.
C21_Witness ==
  /\ Len(received) = 1
  /\ received[1].type = "request_display_mode" /\ received[1].chan = 1
  /\ Len(sent[1]) = 3
  /\ sent[1][2].type = "display_mode_response" /\ sent[1][2].id = received[1].id
  /\ sent[1][2].val = received[1].val
  /\ sent[1][3].key = "displayMode" /\ sent[1][3].val = received[1].val
  /\ Len(sent[2]) = 2
  /\ sent[2][2].key = "displayMode" /\ sent[2][2].val = received[1].val

\* C22: the envelope that answers a tool_call is sent in the step that call's
\* own router call settles, on the request's channel and under the request's
\* id, and it carries the outcome of that call: the result of the tool the
\* request named (with that tool's merged _meta) or that call's error; the
\* step answers no other request, whatever the order of arrival and of
\* completion.
C22_AnswerCarriesOwnOutcome ==
  [][\A k \in 1..MaxMsgs :
       (/\ k <= Len(received') /\ received'[k].type = "tool_call"
        /\ Answers(sent, k) = {} /\ Answers(sent', k) # {}) =>
         /\ last'.op = "callTool" /\ last'.name = received'[k].val
         /\ \A j \in 1..MaxMsgs : j # k => Answers(sent', j) = Answers(sent, j)
         /\ \A ci \in Answers(sent', k) :
              LET e == sent'[ci[1]][ci[2]] IN
              /\ ci[1] = received'[k].chan
              /\ e.id = received'[k].id
              /\ IF last'.status = "resolved"
                 THEN /\ e.type = "tool_result" /\ e.val = received'[k].val
                      /\ \E rm \in ResultMetas :
                           e.meta = MergeMeta(tools[received'[k].val].item.meta, rm)
                 ELSE e.type = "error" /\ e.val = last'.error]_vars

\* Two tool_calls with distinct ids for different tools were in flight at the
\* same time on one channel and completed in the reverse order.
C22_Witness ==
  /\ Len(received) = 2
  /\ received[1].type = "tool_call" /\ received[2].type = "tool_call"
  /\ received[1].chan = 1 /\ received[2].chan = 1
  /\ received[1].id = "x" /\ received[2].id = "y"
  /\ received[1].val = "t1" /\ received[2].val = "t2"
  /\ Len(sent[1]) = 3
  /\ sent[1][2].type = "tool_result" /\ sent[1][2].id = "y" /\ sent[1][2].val = "t2"
  /\ sent[1][3].type = "tool_result" /\ sent[1][3].id = "x" /\ sent[1][3].val = "t1"

\* C25: when the server receives follow_up_message with prompt P, every open
\* channel, the originator included, gets exactly one more envelope, the
\* chat_message whose message is P (it bears no correlation id and answers no
\* request); the other channels get nothing.
C25_FollowUpBroadcastOnly ==
  [][Receives("follow_up_message") =>
       \A d \in Channels :
         sent'[d] = IF chanState[d] = "open"
                    THEN Append(sent[d],
                                [type |-> "chat_message", id |-> NoId, key |-> "message",
                                 val |-> Last(received').val, meta |-> Undef, req |-> 0])
                    ELSE sent[d]]_vars

\* Channel 1 sent a follow-up while channel 2 was open: each got the prompt.
C25_Witness ==
  /\ Len(received) = 1
  /\ received[1].type = "follow_up_message" /\ received[1].chan = 1
  /\ \A d \in Channels :
       /\ Len(sent[d]) = 2
       /\ sent[d][2].type = "chat_message" /\ sent[d][2].val = received[1].val
       /\ sent[d][2].id = NoId

(***************************************************************************)
(* Startup: initializeMCPServers (server/init.ts) connects the configured  *)
(* servers one after the other.                                            *)
(***************************************************************************)
\* What loadMCPConfig can return: one config per key of mcpServers, in the
\* order of the keys, so no name occurs twice.
BootLists ==
  {l \in UNION {[1..n -> Configs] : n \in 0..Cardinality(Configs)} :
     \A i, j \in DOMAIN l : i # j => l[i].name # l[j].name}

BootInit ==
  /\ bootList \in BootLists
  /\ bootPos = 0
  /\ bootBusy = FALSE
  /\ bootListed = FALSE
  /\ bootLog = << >>
  /\ bootDone = FALSE
  /\ RegInit
  /\ BridgeIdle
  /\ ClientIdle
  /\ MetaIdle
  /\ FaultIdle
  /\ HttpIdle
  /\ ReadsIdle
  /\ ConfigIdle
  /\ StoreIdle

\* Mutant of BootSettle: no try/catch around the awaited connect, a rejected
\* connect ends the loop.
BootSettleStopsAtFailure(listed) ==
  /\ IF last'.op = "connect"
     THEN /\ bootLog' = Append(bootLog, [name |-> last'.name, status |-> last'.status,
                                         listed |-> bootListed \/ listed])
          /\ bootPos' = IF last'.status = "rejected" THEN Len(bootList) ELSE bootPos + 1
          /\ bootBusy' = FALSE
          /\ bootListed' = FALSE
     ELSE /\ bootBusy' = TRUE
          /\ bootListed' = (bootListed \/ listed)
          /\ UNCHANGED <<bootLog, bootPos>>
  /\ UNCHANGED <<bootList, bootDone>>

\* The loop body around a step of the awaited connect: when the connect has
\* settled (resolved, or rejected and caught) the iteration is over, otherwise
\* the loop stays suspended. listed: the step registered the server's tools.
BootSettle(listed) ==
  /\ IF last'.op = "connect"
     THEN /\ bootLog' = Append(bootLog, [name |-> last'.name, status |-> last'.status,
                                         listed |-> bootListed \/ listed])
          /\ bootPos' = bootPos + 1
          /\ bootBusy' = FALSE
          /\ bootListed' = FALSE
     ELSE /\ bootBusy' = TRUE
          /\ bootListed' = (bootListed \/ listed)
          /\ UNCHANGED <<bootLog, bootPos>>
  /\ UNCHANGED <<bootList, bootDone>>

\* A step of startup: everything but the registry and the loop stands still.
OnBoot(A) ==
  A /\ UNCHANGED <<bridgeVars, clientVars, metaVars, faultVars, httpVars, reads,
                   configVars, storeVars>>

\* The next iteration: mcpClient.connect(serverConfig) up to its first await.
BootConnect ==
  /\ ~bootDone /\ ~bootBusy
  /\ bootPos < Len(bootList)
  /\ ConnectCall(bootList[bootPos + 1])
  /\ BootSettle(FALSE)

\* The awaited connect moves on.
BootAwait(A, listed) == bootBusy /\ A /\ BootSettle(listed)

\* After the loop: listTools() and the summary are logged. With no server
\* configured the function returns before the loop.
BootReport ==
  /\ ~bootDone /\ ~bootBusy
  /\ bootPos = Len(bootList)
  /\ bootDone' = TRUE
  /\ UNCHANGED <<bootList, bootPos, bootBusy, bootListed, bootLog, regVars>>

BootNext ==
  \/ OnBoot(BootConnect)
  \/ \E c \in ClientIds : OnBoot(BootAwait(HandshakeOk(c), FALSE))
  \/ \E c \in ClientIds : OnBoot(BootAwait(HandshakeFail(c), FALSE))
  \/ \E c \in ClientIds : OnBoot(BootAwait(ListToolsOk(c), TRUE))
  \/ \E c \in ClientIds : OnBoot(BootAwait(ListToolsFail(c), FALSE))
  \/ \E c \in ClientIds : OnBoot(BootAwait(ListResourcesOk(c), FALSE))
  \/ \E c \in ClientIds : OnBoot(BootAwait(ListResourcesFail(c), FALSE))
  \/ \E c \in ClientIds : OnRegistry(ProviderExit(c))
  \/ OnBoot(BootReport)

SpecBoot == BootInit /\ [][BootNext]_vars

(***************************************************************************)
(* Claims about startup.                                                   *)
(***************************************************************************)
Max(S) == CHOOSE i \in S : \A j \in S : j <= i

\* The iterations that are over and whose server advertises tool t.
Advertising(t) ==
  {i \in 1..Len(bootLog) : t \in DOMAIN ToolsByName(bootLog[i].name)}

\* C24 (as claimed): between two iterations and after the loop, a tool name
\* belongs to the last server in config order whose connect succeeded, among
\* those that advertise it.
C24_LastConnectedOwnsName ==
  ~bootBusy =>
    \A t \in ToolNames :
      LET ok == {i \in Advertising(t) : bootLog[i].status = "resolved"} IN
      ok # {} => t \in DOMAIN tools /\ tools[t].serverName = bootLog[Max(ok)].name

\* The servers are attempted one at a time, in config order, and the function
\* returns only after the last one.
C24_OneAtATimeInOrder ==
  /\ Len(bootLog) = bootPos
  /\ \A i \in 1..Len(bootLog) : bootLog[i].name = bootList[i].name
  /\ Cardinality({c \in ClientIds : ctask[c] # "none"}) = IF bootBusy THEN 1 ELSE 0
  /\ \A c \in ClientIds : ctask[c] # "none" => clientName[c] = bootList[bootPos + 1].name
  /\ bootDone => bootPos = Len(bootList)
  /\ (~bootBusy /\ ~bootDone /\ bootPos < Len(bootList)) => ENABLED OnBoot(BootConnect)

\* A failed connect leaves nothing behind, and every server that connected
\* stays connected.
C24_FailureIsLocal ==
  \A i \in 1..Len(bootLog) :
    IF bootLog[i].status = "rejected"
    THEN /\ ~bootLog[i].listed
         /\ ~IsConnected(bootLog[i].name)
         /\ Owned(tools, bootLog[i].name) = {} /\ Owned(resources, bootLog[i].name) = {}
    ELSE IsConnected(bootLog[i].name)

\* The step in which a connect fails changes no map and ends the iteration;
\* the loop goes on with the next server.
C24_FailureStep ==
  (Len(bootLog') = Len(bootLog) + 1 /\ Last(bootLog').status = "rejected") =>
    /\ connections' = connections /\ tools' = tools /\ resources' = resources
    /\ bootPos' = bootPos + 1 /\ ~bootBusy' /\ ~bootDone'

\* A tool name belongs to the last server in config order that registered its
\* tool catalog, and to nobody when no server did.
C24_LastListedOwnsName ==
  ~bootBusy =>
    \A t \in ToolNames :
      LET reg == {i \in Advertising(t) : bootLog[i].listed} IN
      IF reg = {} THEN t \notin DOMAIN tools
      ELSE t \in DOMAIN tools /\ tools[t].serverName = bootLog[Max(reg)].name

\* C24 (amended): startup attempts the servers one at a time in config order;
\* a connect that fails (handshake failure or unsupported transport) stores
\* nothing, changes no entry and no connection of an earlier server, and the
\* loop goes on with the next server; for colliding tool names the owner is
\* the last server in config order whose tool catalog was fetched and
\* registered, which need not be the last one that connected.
C24_StartupIsolatesFailures ==
  /\ [](C24_OneAtATimeInOrder /\ C24_FailureIsLocal /\ C24_LastListedOwnsName)
  /\ [][C24_FailureStep]_vars

\* A connected and registered t1; S was refused for its transport; B connected
\* afterwards but its tool listing failed, so t1 is still A's.
C24_Witness ==
  /\ bootDone
  /\ Len(bootLog) = 3
  /\ bootLog[1] = [name |-> "A", status |-> "resolved", listed |-> TRUE]
  /\ bootLog[2] = [name |-> "S", status |-> "rejected", listed |-> FALSE]
  /\ bootLog[3] = [name |-> "B", status |-> "resolved", listed |-> FALSE]
  /\ IsConnected("A") /\ IsConnected("B")
  /\ tools["t1"].serverName = "A"

(***************************************************************************)
(* The message store: createMessage and parseStoredMessage.                *)
(***************************************************************************)
\* JavaScript truthiness of a value: 0, false, the empty string, null and
\* undefined are falsy; every object and array is truthy.
Truthy(v) ==
  CASE v.kind \in {"object", "array"} -> TRUE
    [] v.kind = "number" -> v.text # "0"
    [] v.kind = "boolean" -> v.text = "true"
    [] v.kind = "string" -> v.text # "''"
    [] OTHER -> FALSE

\* Truthiness of a text field: undefined, null and the empty text are falsy.
TruthyText(t) == t # NoText /\ t # ""

\* JSON.stringify(v) and JSON.parse(text)
JsonStringify(v) == v.text
JsonParse(t) == CHOOSE v \in JsonValues : v.text = t

\* params.f ? JSON.stringify(params.f) : undefined (null for the row)
StoreField(v) == IF Truthy(v) THEN JsonStringify(v) ELSE NoText

\* stored.f ? JSON.parse(stored.f) : undefined
ParseField(t) == IF TruthyText(t) THEN JsonParse(t) ELSE Missing

StoreInit ==
  /\ msgParams \in [JsonFields -> JsonValues \cup {Missing}]
  /\ msgStored = [f \in JsonFields |-> NoText]
  /\ msgRow = [f \in JsonFields |-> NoText]
  /\ msgParsed = [f \in JsonFields |-> Missing]
  /\ msgStage = "new"
  /\ RegInit
  /\ BridgeIdle
  /\ ClientIdle
  /\ MetaIdle
  /\ FaultIdle
  /\ HttpIdle
  /\ ReadsIdle
  /\ ConfigIdle
  /\ BootIdle

StoreFrame == <<regVars, bridgeVars, clientVars, metaVars, faultVars, httpVars, reads,
                configVars, bootVars>>

\* createMessage(msgParams): the row is inserted and the StoredMessage returned.
CreateMessage ==
  /\ msgStage = "new"
  /\ msgRow' = [f \in JsonFields |-> StoreField(msgParams[f])]
  /\ msgStored' = [f \in JsonFields |-> StoreField(msgParams[f])]
  /\ msgStage' = "stored"
  /\ UNCHANGED <<msgParams, msgParsed>>
  /\ UNCHANGED StoreFrame

\* parseStoredMessage of what createMessage returned, or of the row read back
\* with getMessage.
ParseStoredMessage(fromRow) ==
  /\ msgStage = "stored"
  /\ msgParsed' = [f \in JsonFields |->
                     ParseField(IF fromRow THEN msgRow[f] ELSE msgStored[f])]
  /\ msgStage' = "parsed"
  /\ UNCHANGED <<msgParams, msgStored, msgRow>>
  /\ UNCHANGED StoreFrame

StoreNext ==
  \/ CreateMessage
  \/ \E fromRow \in BOOLEAN : ParseStoredMessage(fromRow)

SpecStore == StoreInit /\ [][StoreNext]_vars

\* C26: after createMessage and parseStoredMessage every JSON field that was
\* given parses to the value given, the scalars 0, false and the empty string
\* included, and a field that was not given parses to undefined.
C26_JsonFieldsRoundTrip ==
  msgStage = "parsed" => \A f \in JsonFields : msgParsed[f] = msgParams[f]

(***************************************************************************)
(* The HTTP route POST /api/tools/:name (server/routes.ts).                *)
(***************************************************************************)
HttpResponse(req, name, status, error) ==
  [req |-> req, name |-> name, status |-> status, error |-> error]

\* The handler up to its await: mcpClient.callTool either throws in its
\* synchronous part (the catch answers at once) or is forwarded.
HttpPostTool(name) ==
  LET req == Len(httpLog) + Cardinality(httpTasks) + 1 IN
  /\ req <= MaxHttp
  /\ CallToolLookup(name) = "forward" => Cardinality(httpTasks) < MaxInFlight
  /\ CallTool(name)
  /\ IF last'.op = "callTool"
     THEN /\ httpLog' = Append(httpLog, HttpResponse(req, name, HttpError, last'.error))
          /\ httpTasks' = httpTasks
     ELSE /\ httpLog' = httpLog
          /\ httpTasks' = httpTasks \cup {[req |-> req, name |-> name, slot |-> FreeSlot]}

\* callTool resolved: Response.json({ result }).
HttpToolResolved(t, resultMeta) ==
  /\ t \in httpTasks
  /\ CallToolOk(HandlerOf(t), resultMeta)
  /\ httpTasks' = httpTasks \ {t}
  /\ httpLog' = Append(httpLog, HttpResponse(t.req, t.name, HttpOk, "none"))

\* callTool rejected: Response.json({ error }, { status: 500 }).
HttpToolRejected(t) ==
  /\ t \in httpTasks
  /\ CallToolFail(HandlerOf(t))
  /\ httpTasks' = httpTasks \ {t}
  /\ httpLog' = Append(httpLog, HttpResponse(t.req, t.name, HttpError, last'.error))

\* A step of the route: the bridge, the page, the merge inputs, the resource
\* reads and the validation stand still.
OnRoute(A) ==
  A /\ UNCHANGED <<bridgeVars, clientVars, metaVars, faultVars, reads, configVars,
                   bootVars, storeVars>>

HttpNext ==
  \/ \E n \in CallNames : OnRoute(HttpPostTool(n))
  \/ \E t \in httpTasks, m \in ResultMetas : OnRoute(HttpToolResolved(t, m))
  \/ \E t \in httpTasks : OnRoute(HttpToolRejected(t))

SpecHttp == BridgeInit /\ [][HttpNext]_vars

\* C19: a call to a tool name that is not registered is answered over HTTP
\* with a status of the 4xx class.
C19_UnknownToolIsCallerError ==
  \A i \in 1..Len(httpLog) :
    httpLog[i].error = "ToolNotFound" =>
      httpLog[i].status >= 400 /\ httpLog[i].status <= 499

(***************************************************************************)
(* MCPClient.getResource                                                   *)
(***************************************************************************)
\* Uris a caller passes to getResource: the advertised ones and one nobody has.
UriInputs == Uris \cup {"zz"}

\* What getResource settled with: value is the error of a rejection, "null"
\* for a returned null and "resource" for a returned MCPResource.
ResourceOutcome(uri, status, value) ==
  Outcome("getResource", uri, status, value, "none", Undef, NoName)

ReadFrame == <<connections, tools, resources, clientState, clientName, ctask, discs,
               pending, regOrder, goneBy>>

\* Mutant of GetResource: null also when the owning server is not connected.
GetResourceNullWhenUnavailable(uri) ==
  /\ IF uri \notin DOMAIN resources
     THEN last' = ResourceOutcome(uri, "resolved", "null") /\ reads' = reads
     ELSE IF connections[resources[uri].serverName] = NoClient
     THEN last' = ResourceOutcome(uri, "resolved", "null") /\ reads' = reads
     ELSE IF clientState[connections[resources[uri].serverName]] = "closed"
     THEN last' = ResourceOutcome(uri, "rejected", "ResourceReadFailed") /\ reads' = reads
     ELSE /\ reads' = reads \cup {[uri |-> uri,
                                   client |-> connections[resources[uri].serverName]]}
          /\ last' = NoOutcome
  /\ UNCHANGED ReadFrame

\* getResource() up to its await: lookup of the resource, then of its
\* connection; client.readResource throws at once on a closed Client.
GetResource(uri) ==
  /\ IF uri \notin DOMAIN resources
     THEN last' = ResourceOutcome(uri, "resolved", "null") /\ reads' = reads
     ELSE IF connections[resources[uri].serverName] = NoClient
     THEN last' = ResourceOutcome(uri, "rejected", "ServerUnavailable") /\ reads' = reads
     ELSE IF clientState[connections[resources[uri].serverName]] = "closed"
     THEN last' = ResourceOutcome(uri, "rejected", "ResourceReadFailed") /\ reads' = reads
     ELSE /\ reads' = reads \cup {[uri |-> uri,
                                   client |-> connections[resources[uri].serverName]]}
          /\ last' = NoOutcome
  /\ UNCHANGED ReadFrame

\* The provider answered: build the MCPResource.
ReadResourceOk(r) ==
  /\ r \in reads
  /\ reads' = reads \ {r}
  /\ last' = ResourceOutcome(r.uri, "resolved", "resource")
  /\ UNCHANGED ReadFrame

\* The round trip failed (closed stream, SDK request timeout, no contents).
ReadResourceFail(r) ==
  /\ r \in reads
  /\ reads' = reads \ {r}
  /\ last' = ResourceOutcome(r.uri, "rejected", "ResourceReadFailed")
  /\ UNCHANGED ReadFrame

\* A step of getResource: everything but the registry and the reads stands still.
OnReads(A) ==
  A /\ UNCHANGED <<bridgeVars, clientVars, metaVars, faultVars, httpVars, configVars,
                   bootVars, storeVars>>

ResourceNext ==
  \/ \E cfg \in Configs : OnRegistry(ConnectCall(cfg))
  \/ \E c \in ClientIds : OnRegistry(HandshakeOk(c))
  \/ \E c \in ClientIds : OnRegistry(HandshakeFail(c))
  \/ \E c \in ClientIds : OnRegistry(ListToolsOk(c))
  \/ \E c \in ClientIds : OnRegistry(ListToolsFail(c))
  \/ \E c \in ClientIds : OnRegistry(ListResourcesOk(c))
  \/ \E c \in ClientIds : OnRegistry(ListResourcesFail(c))
  \/ \E n \in Names : OnRegistry(DisconnectCall(n))
  \/ \E c \in ClientIds : OnRegistry(DisconnectFinish(c))
  \/ \E c \in ClientIds : OnRegistry(ProviderExit(c))
  \/ \E u \in UriInputs :
       /\ (/\ u \in DOMAIN resources
           /\ IsConnected(resources[u].serverName)
           /\ clientState[connections[resources[u].serverName]] # "closed")
            => Cardinality(reads) < MaxReads
       /\ OnReads(GetResource(u))
  \/ \E r \in reads : OnReads(ReadResourceOk(r))
  \/ \E r \in reads : OnReads(ReadResourceFail(r))

SpecResource == Init /\ [][ResourceNext]_vars

\* C20: getResource(uri) returns null exactly when uri is not a key of the
\* resource map, and then it raises nothing and starts no round trip; for a
\* known uri whose owner is not connected, or whose read fails, it raises an
\* error; a read that succeeds returns the resource.
C20_NullIffUnknownUri ==
  [][/\ \A u \in UriInputs :
          GetResource(u) =>
            /\ (u \notin DOMAIN resources) <=>
                 (last'.op = "getResource" /\ last'.status = "resolved"
                    /\ last'.error = "null")
            /\ u \notin DOMAIN resources => reads' = reads /\ clientState' = clientState
            /\ (u \in DOMAIN resources /\ ~IsConnected(resources[u].serverName)) =>
                 /\ last'.op = "getResource" /\ last'.status = "rejected"
                 /\ reads' = reads
     /\ \A r \in reads :
          /\ ReadResourceFail(r) => last'.status = "rejected"
          /\ ReadResourceOk(r) => last'.status = "resolved" /\ last'.error # "null"]_vars

\* getResource raised for a uri whose entry outlived its owner's connection.
C20_Witness ==
  /\ last.op = "getResource" /\ last.status = "rejected"
  /\ last.error = "ServerUnavailable"
  /\ last.name \in DOMAIN resources
  /\ ~IsConnected(resources[last.name].serverName)

====
